---- MODULE Spec2Model ----
(***************************************************************************)
(* Verification model of the llms.txt generator backend: the Redis         *)
(* scheduler (app/services/scheduler.py), the change-detection and crawl   *)
(* tasks (app/workers/tasks.py), the project routes and the relevance      *)
(* filter of the LLM curator.                                              *)
(*                                                                         *)
(* Time is counted in minutes.  Project ids are modelled as integers; the  *)
(* integer order stands for Redis' lexicographic order on members.         *)
(***************************************************************************)
EXTENDS Integers, Sequences, FiniteSets, TLC

\* ------------------------------------------------------------------ bounds
NumProjects == 2
NumDispatchers == 2
MaxClockHours == 1
MaxZadds == 2
MaxCount == 10
MaxSections == 2
MaxFilterPages == 3
NumFilterUrls == 2
NumWorkers == 2
MaxTasks == 2
NumPages == 1
MaxProjectHours == 3
MaxTaskHours == 1
MaxUrlLen == 3
MaxCrawls == 2
MaxTargetedRuns == 1

Projects == 1..NumProjects
Dispatchers == 1..NumDispatchers

\* ------------------------------------------------------- program constants
DEFAULT_CHECK_INTERVAL_HOURS == 24
MIN_CHECK_INTERVAL_HOURS == 6
MAX_CHECK_INTERVAL_HOURS == 168
lightweight_check_interval_minutes == 5
MinutesPerHour == 60

\* settings.full_rescrape_cooldown_hours: read by SchedulerService.__init__
\* and by _trigger_lightweight_rescrape; required deployment configuration.
full_rescrape_cooldown_hours == 3

None == -1

Min(a, b) == IF a <= b THEN a ELSE b
Max(a, b) == IF a >= b THEN a ELSE b

\* ------------------------------------------------------------------- state
VARIABLES
    now,        \* wall clock, minutes
    zsets,      \* Redis sorted sets: key -> (member -> score, None if absent)
    zgen,       \* ghost: key -> member -> number of ZADDs so far (entry identity)
    zadds,      \* ghost: total number of ZADDs (bounds the run)
    intervals,  \* Redis hash schedule:intervals: member -> hours (None if absent)
    disp,       \* dispatchers inside get_due_*: pc, key, due list, entries read
    handed,     \* ghost: <<key, member, entry>> returned to some caller
    doubled,    \* ghost: <<key, member, entry>> returned to a second caller
    lastCall,   \* ghost: the last completed scheduler call and its result
    thr,        \* _check_full_regeneration_threshold: the arguments and the result
    flt,        \* filter_relevant_pages: the arguments, the loop state and the result
    nrm,        \* _normalize_url: the URL, its key and the key of its key
    inv,        \* site_url_inventories rows and the calls of _store_url_inventory
    sig,        \* analyze_batch_significance: the arguments and the result
    loop,       \* the project rows seen by the two dispatch loops and the tasks they sent
    sel,        \* a rescrape on the selective path: curated rows, plan, artifact
    pv,         \* page rows and the tasks that read and write them, step by step
    project,    \* the projects row: status, interval and the three timestamps
    jobs,       \* crawl_jobs rows of the project, in order of insertion
    queue,      \* task messages on the broker
    enqueued,   \* ghost: number of messages ever enqueued (message ids, bounds the run)
    workers,    \* the workers running initial_crawl / targeted_recrawl
    curated,    \* site overview, curated pages and sections (sizes and a revision)
    artifact,   \* generated_files row: the current artifact
    versions,   \* generated_file_versions rows
    pages,      \* fingerprints of the page rows of the highest version
    pageVersion,\* the highest page version
    quiet,      \* number of further pages whose origin never answers
    lastOp,     \* ghost: the operation of the last project step
    lastRet     \* ghost: what the last lightweight_batch_check returned

schedVars == <<zsets, zgen, zadds, intervals, disp, handed, doubled, lastCall>>

FULL_CHECK_KEY == "schedule:full_check"
LIGHTWEIGHT_CHECK_KEY == "schedule:lightweight_check"
COOLDOWN_KEY == "schedule:cooldowns"
ZKeys == {FULL_CHECK_KEY, LIGHTWEIGHT_CHECK_KEY, COOLDOWN_KEY}

NoCall == [op |-> "none", p |-> 0, changed |-> FALSE, before |-> None, ret |-> None]

IdleDispatcher == [pc |-> "idle", key |-> FULL_CHECK_KEY, due |-> {}, limit |-> 0, gens |-> [p \in Projects |-> 0]]

SchedInit ==
    /\ zsets = [k \in ZKeys |-> [p \in Projects |-> None]]
    /\ zgen = [k \in ZKeys |-> [p \in Projects |-> 0]]
    /\ zadds = 0
    /\ intervals = [p \in Projects |-> None]
    /\ disp = [d \in Dispatchers |-> IdleDispatcher]
    /\ handed = {}
    /\ doubled = {}
    /\ lastCall = NoCall

\* ------------------------------------------------------- Redis primitives
\* ZADD key {member: score}: insert or overwrite.
ZAdd(key, p, score) ==
    /\ zadds < MaxZadds
    /\ zsets' = [zsets EXCEPT ![key][p] = score]
    /\ zgen' = [zgen EXCEPT ![key][p] = @ + 1]
    /\ zadds' = zadds + 1

\* Members of key with lo <= score <= hi.
InScoreRange(key, lo, hi) ==
    {p \in Projects : zsets[key][p] # None /\ zsets[key][p] >= lo /\ zsets[key][p] <= hi}

\* p comes before q in the sorted set (by score, then by member).
ZBefore(key, p, q) ==
    \/ zsets[key][p] < zsets[key][q]
    \/ (zsets[key][p] = zsets[key][q] /\ p < q)

\* a range read that ignores LIMIT
ZRangeByScore_mutant_no_limit(key, lo, hi, num) ==
    InScoreRange(key, lo, hi)

\* ZRANGEBYSCORE key lo hi LIMIT 0 num: the first num members of the range.
ZRangeByScore(key, lo, hi, num) ==
    LET r == InScoreRange(key, lo, hi)
    IN  {p \in r : Cardinality({q \in r : ZBefore(key, q, p)}) < num}

\* ------------------------------------------------ scheduler: check interval
get_check_interval(p) ==
    IF intervals[p] # None /\ intervals[p] # 0
    THEN intervals[p]
    ELSE DEFAULT_CHECK_INTERVAL_HOURS

ClampHours(hours) ==
    Max(MIN_CHECK_INTERVAL_HOURS, Min(hours, MAX_CHECK_INTERVAL_HOURS))

\* a store without the clamp
set_check_interval_mutant_no_clamp(p, hours) ==
    intervals' = [intervals EXCEPT ![p] = hours]

set_check_interval(p, hours) ==
    intervals' = [intervals EXCEPT ![p] = ClampHours(hours)]

BackoffInterval(current, changed) ==
    IF changed
    THEN MIN_CHECK_INTERVAL_HOURS
    ELSE Min(current * 2, MAX_CHECK_INTERVAL_HOURS)

\* ---------------------------------------------------- scheduler: operations
schedule_full_check(p, interval_hours, run_at) ==
    LET ih == IF interval_hours = None THEN get_check_interval(p) ELSE interval_hours
        at == IF run_at = None THEN now + ih * MinutesPerHour ELSE run_at
    IN  /\ ZAdd(FULL_CHECK_KEY, p, at)
        /\ lastCall' = [NoCall EXCEPT !.op = "schedule_full_check", !.p = p]
        /\ UNCHANGED <<now, intervals, disp, handed, doubled>>

schedule_lightweight_check(p, interval_minutes) ==
    LET im == IF interval_minutes = None THEN lightweight_check_interval_minutes
              ELSE interval_minutes
    IN  /\ ZAdd(LIGHTWEIGHT_CHECK_KEY, p, now + im)
        /\ lastCall' = [NoCall EXCEPT !.op = "schedule_lightweight_check", !.p = p]
        /\ UNCHANGED <<now, intervals, disp, handed, doubled>>

\* get_due_full_checks / get_due_lightweight_checks, first Redis command:
\* ZRANGEBYSCORE key 0 now LIMIT 0 limit.  An empty answer returns at once.
GetDueRange(d, key, limit) ==
    /\ disp[d].pc = "idle"
    /\ LET due == ZRangeByScore(key, 0, now, limit)
       IN  disp' = [disp EXCEPT ![d] =
                      IF due = {}
                      THEN IdleDispatcher
                      ELSE [pc |-> "pipe", key |-> key, due |-> due, limit |-> limit,
                            gens |-> [p \in Projects |-> zgen[key][p]]]]
    /\ UNCHANGED <<now, zsets, zgen, zadds, intervals, handed, doubled, lastCall>>

\* second Redis command: the pipeline (MULTI ... EXEC) of one ZREM per id read,
\* then `return due`.
GetDuePipeExecute(d) ==
    /\ disp[d].pc = "pipe"
    /\ LET key == disp[d].key
           due == disp[d].due
           out == {<<key, p, disp[d].gens[p]>> : p \in due}
       IN  /\ zsets' = [zsets EXCEPT ![key] =
                           [p \in Projects |-> IF p \in due THEN None ELSE zsets[key][p]]]
           /\ doubled' = doubled \cup (out \cap handed)
           /\ handed' = handed \cup out
    /\ disp' = [disp EXCEPT ![d] = IdleDispatcher]
    /\ UNCHANGED <<now, zgen, zadds, intervals, lastCall>>

get_due_full_checks_range(d, limit) == GetDueRange(d, FULL_CHECK_KEY, limit)

get_due_lightweight_checks_range(d, limit) == GetDueRange(d, LIGHTWEIGHT_CHECK_KEY, limit)

ZRem(key, p) ==
    /\ zsets' = [zsets EXCEPT ![key][p] = None]
    /\ UNCHANGED <<zgen, zadds>>

cancel_full_check(p) ==
    /\ ZRem(FULL_CHECK_KEY, p)
    /\ lastCall' = [NoCall EXCEPT !.op = "cancel_full_check", !.p = p,
                                  !.ret = IF zsets[FULL_CHECK_KEY][p] # None THEN 1 ELSE 0]
    /\ UNCHANGED <<now, intervals, disp, handed, doubled>>

cancel_lightweight_check(p) ==
    /\ ZRem(LIGHTWEIGHT_CHECK_KEY, p)
    /\ lastCall' = [NoCall EXCEPT !.op = "cancel_lightweight_check", !.p = p,
                                  !.ret = IF zsets[LIGHTWEIGHT_CHECK_KEY][p] # None THEN 1 ELSE 0]
    /\ UNCHANGED <<now, intervals, disp, handed, doubled>>

apply_backoff_mutant_default(p, changed) ==
    LET current == get_check_interval(p)
        new_interval == IF changed THEN DEFAULT_CHECK_INTERVAL_HOURS
                        ELSE current * 2
    IN  /\ set_check_interval(p, new_interval)
        /\ lastCall' = [op |-> "apply_backoff", p |-> p, changed |-> changed,
                        before |-> intervals[p], ret |-> new_interval]
        /\ UNCHANGED <<now, zsets, zgen, zadds, disp, handed, doubled>>

apply_backoff(p, changed) ==
    LET current == get_check_interval(p)
        new_interval == BackoffInterval(current, changed)
    IN  /\ set_check_interval(p, new_interval)
        /\ lastCall' = [op |-> "apply_backoff", p |-> p, changed |-> changed,
                        before |-> intervals[p], ret |-> new_interval]
        /\ UNCHANGED <<now, zsets, zgen, zadds, disp, handed, doubled>>

\* ghost: lastCall.before records the hours asked for
SetCheckInterval(p, hours) ==
    /\ set_check_interval(p, hours)
    /\ lastCall' = [NoCall EXCEPT !.op = "set_check_interval", !.p = p, !.before = hours]
    /\ UNCHANGED <<now, zsets, zgen, zadds, disp, handed, doubled>>

set_cooldown(p, hours) ==
    LET h == IF hours = None THEN full_rescrape_cooldown_hours ELSE hours
        expires_at == now + h * MinutesPerHour
    IN  /\ ZAdd(COOLDOWN_KEY, p, expires_at)
        /\ lastCall' = [NoCall EXCEPT !.op = "set_cooldown", !.p = p]
        /\ UNCHANGED <<now, intervals, disp, handed, doubled>>

\* A caller that has read an expired cooldown entry of p and has not sent
\* its ZREM yet.
Evicting(pc, p) ==
    [pc |-> pc, key |-> COOLDOWN_KEY, due |-> {p}, limit |-> 0, gens |-> [q \in Projects |-> zgen[COOLDOWN_KEY][q]]]

\* is_in_cooldown, first Redis command: ZSCORE.  No entry, or one that has
\* not expired, is answered at once; an expired one is removed first.
is_in_cooldown(d, p) ==
    LET score == zsets[COOLDOWN_KEY][p]
    IN  /\ disp[d].pc = "idle"
        /\ IF score # None /\ score <= now
           THEN /\ disp' = [disp EXCEPT ![d] = Evicting("evict", p)]
                /\ UNCHANGED lastCall
           ELSE /\ lastCall' = [NoCall EXCEPT !.op = "is_in_cooldown", !.p = p,
                                              !.ret = IF score # None THEN 1 ELSE 0]
                /\ UNCHANGED disp
        /\ UNCHANGED <<now, zsets, zgen, zadds, intervals, handed, doubled>>

\* get_cooldown_remaining, first Redis command: ZSCORE; the answer is the
\* remaining time in minutes, None outside a cooldown.
get_cooldown_remaining(d, p) ==
    LET score == zsets[COOLDOWN_KEY][p]
    IN  /\ disp[d].pc = "idle"
        /\ IF score # None /\ score - now <= 0
           THEN /\ disp' = [disp EXCEPT ![d] = Evicting("evict_remaining", p)]
                /\ UNCHANGED lastCall
           ELSE /\ lastCall' = [NoCall EXCEPT !.op = "get_cooldown_remaining", !.p = p,
                                              !.ret = IF score # None THEN score - now
                                                      ELSE None]
                /\ UNCHANGED disp
        /\ UNCHANGED <<now, zsets, zgen, zadds, intervals, handed, doubled>>

\* second Redis command of both: ZREM of the member, then return False / None
CooldownZRem(d) ==
    /\ disp[d].pc \in {"evict", "evict_remaining"}
    /\ \E p \in disp[d].due :
          /\ ZRem(COOLDOWN_KEY, p)
          /\ lastCall' = [NoCall EXCEPT
                            !.op = IF disp[d].pc = "evict" THEN "is_in_cooldown"
                                   ELSE "get_cooldown_remaining",
                            !.p = p,
                            !.ret = IF disp[d].pc = "evict" THEN 0 ELSE None]
    /\ disp' = [disp EXCEPT ![d] = IdleDispatcher]
    /\ UNCHANGED <<now, intervals, handed, doubled>>

clear_cooldown(p) ==
    /\ ZRem(COOLDOWN_KEY, p)
    /\ lastCall' = [NoCall EXCEPT !.op = "clear_cooldown", !.p = p]
    /\ UNCHANGED <<now, intervals, disp, handed, doubled>>

\* unschedule_project: one pipeline removing the member from all four keys.
unschedule_project(p) ==
    /\ zsets' = [k \in ZKeys |-> [zsets[k] EXCEPT ![p] = None]]
    /\ intervals' = [intervals EXCEPT ![p] = None]
    /\ lastCall' = [NoCall EXCEPT !.op = "unschedule_project", !.p = p]
    /\ UNCHANGED <<now, zgen, zadds, disp, handed, doubled>>

\* schedule_project, first call: schedule_full_check(project_id) with the
\* stored interval.
schedule_project(d, p) ==
    /\ disp[d].pc = "idle"
    /\ ZAdd(FULL_CHECK_KEY, p, now + get_check_interval(p) * MinutesPerHour)
    /\ disp' = [disp EXCEPT ![d] = [pc |-> "enrol", key |-> LIGHTWEIGHT_CHECK_KEY, due |-> {p}, limit |-> 0,
                                    gens |-> [q \in Projects |-> 0]]]
    /\ UNCHANGED <<now, intervals, handed, doubled, lastCall>>

\* second call: schedule_lightweight_check(project_id), then the return
ScheduleProjectLightweight(d) ==
    /\ disp[d].pc = "enrol"
    /\ \E p \in disp[d].due :
          /\ ZAdd(LIGHTWEIGHT_CHECK_KEY, p, now + lightweight_check_interval_minutes)
          /\ lastCall' = [NoCall EXCEPT !.op = "schedule_project", !.p = p]
    /\ disp' = [disp EXCEPT ![d] = IdleDispatcher]
    /\ UNCHANGED <<now, intervals, handed, doubled>>

\* The clock advances by one hour.
Tick ==
    /\ now + MinutesPerHour <= MaxClockHours * MinutesPerHour
    /\ now' = now + MinutesPerHour

TickSched == Tick /\ UNCHANGED schedVars

\* =========================================================================
\* Planner: the full-regeneration threshold (tasks.py)
\* =========================================================================
\* (n / d) * 100 > pct in Python floats; for the counts of the model (and for
\* every pair of counts up to 2000) the float comparison agrees with the exact
\* one, n * 100 > pct * d.
PctOver(n, d, pct) == n * 100 > pct * d

check_full_regeneration_threshold_mutant_ge(curated_count, removed_count, significant_change_count, new_relevant_count, existing_section_count, new_section_count) ==
    IF curated_count = 0 THEN [full |-> FALSE, reason |-> "no curated pages"]
    ELSE IF removed_count * 100 >= 50 * curated_count
    THEN [full |-> TRUE, reason |-> "major restructure"]
    ELSE IF significant_change_count * 100 >= 50 * curated_count
    THEN [full |-> TRUE, reason |-> "major content overhaul"]
    ELSE IF new_relevant_count > 0 /\ new_relevant_count * 100 >= 30 * curated_count
    THEN [full |-> TRUE, reason |-> "major expansion"]
    ELSE IF new_section_count > 0 /\ existing_section_count > 0
            /\ new_section_count >= existing_section_count
    THEN [full |-> TRUE, reason |-> "site pivot"]
    ELSE [full |-> FALSE, reason |-> "within threshold"]

check_full_regeneration_threshold(curated_count, removed_count, significant_change_count, new_relevant_count, existing_section_count, new_section_count) ==
    IF curated_count = 0 THEN [full |-> FALSE, reason |-> "no curated pages"]
    ELSE IF PctOver(removed_count, curated_count, 50)
    THEN [full |-> TRUE, reason |-> "major restructure"]
    ELSE IF PctOver(significant_change_count, curated_count, 50)
    THEN [full |-> TRUE, reason |-> "major content overhaul"]
    ELSE IF curated_count > 0 /\ new_relevant_count > 0
            /\ PctOver(new_relevant_count, curated_count, 30)
    THEN [full |-> TRUE, reason |-> "major expansion"]
    ELSE IF new_section_count > 0 /\ existing_section_count > 0
            /\ new_section_count >= existing_section_count
    THEN [full |-> TRUE, reason |-> "site pivot"]
    ELSE [full |-> FALSE, reason |-> "within threshold"]

NoResult == [full |-> FALSE, reason |-> "not called"]

\* The counts initial_crawl passes: removed and significantly changed pages are
\* disjoint subsets of the curated pages.
ThresholdInputs ==
    {a \in [curated : 0..MaxCount, removed : 0..MaxCount, significant : 0..MaxCount,
            new_relevant : 0..MaxCount, existing_sections : 0..MaxSections,
            new_sections : 0..MaxSections] :
        a.removed + a.significant <= a.curated}

ThrIdle == [args |-> [curated |-> 0, removed |-> 0, significant |-> 0, new_relevant |-> 0,
                      existing_sections |-> 0, new_sections |-> 0],
            called |-> FALSE, result |-> NoResult]

CheckThreshold ==
    /\ ~thr.called
    /\ thr' = [thr EXCEPT !.called = TRUE,
                          !.result = check_full_regeneration_threshold(
                              thr.args.curated, thr.args.removed, thr.args.significant,
                              thr.args.new_relevant, thr.args.existing_sections,
                              thr.args.new_sections)]

\* =========================================================================
\* LLM curator: filter_relevant_pages (llm_curator.py)
\* =========================================================================
FilterUrls == 1..NumFilterUrls

\* A crawled page as the filter sees it: url, the is_homepage flag, and whether
\* len(markdown.strip()) + len(first_paragraph.strip()) >= 50.
FilterPage == [url : FilterUrls, is_homepage : BOOLEAN, has_content : BOOLEAN]

SeqsUpTo(S, n) == UNION {[1..k -> S] : k \in 0..n}

RECURSIVE SelectSeq2(_, _)
\* [p for p in s if Keep(p)], for the two filters of the function
SelectSeq2(s, keepHome) ==
    IF s = <<>> THEN <<>>
    ELSE LET rest == SelectSeq2(Tail(s), keepHome)
         IN  IF Head(s).is_homepage = keepHome THEN <<Head(s)>> \o rest ELSE rest

RECURSIVE WithContent(_)
WithContent(s) ==
    IF s = <<>> THEN <<>>
    ELSE IF Head(s).has_content THEN <<Head(s)>> \o WithContent(Tail(s))
         ELSE WithContent(Tail(s))

\* next((p for p in pages if p.get("is_homepage")), None): <<>> stands for None
FirstHomepage(page_list) ==
    LET h == SelectSeq2(page_list, TRUE) IN IF h = <<>> THEN <<>> ELSE <<Head(h)>>

\* url_to_page = {p["url"]: p for p in pages}: the last page of a url wins
UrlToPage(page_list, url) ==
    LET idx == {i \in 1..Len(page_list) : page_list[i].url = url}
    IN  page_list[CHOOSE i \in idx : \A j \in idx : j <= i]

SeqMin(a, b) == IF a <= b THEN a ELSE b

\* every ordering of a finite set as a sequence (iteration order of a Python set)
Orderings(S) ==
    {f \in [1..Cardinality(S) -> S] : \A i, j \in 1..Cardinality(S) : f[i] = f[j] => i = j}

FltIdle == [pages |-> <<>>, batch_size |-> 1, pc |-> "done", homepage |-> <<>>,
            non_homepage |-> <<>>, batch_num |-> 0, relevant_urls |-> {},
            failed |-> FALSE, out |-> <<>>]

FilterBatchSizes == {1, 25}

\* filter_relevant_pages up to the batch loop: the homepage is set aside, empty
\* pages are dropped, and an input without classifiable pages returns at once.
FilterStart ==
    /\ flt.pc = "start"
    /\ LET homepage == FirstHomepage(flt.pages)
           non_homepage == WithContent(SelectSeq2(flt.pages, FALSE))
       IN  IF flt.pages = <<>> \/ non_homepage = <<>>
           THEN flt' = [flt EXCEPT !.pc = "done", !.homepage = homepage,
                                   !.out = IF flt.pages = <<>> THEN <<>> ELSE homepage]
           ELSE flt' = [flt EXCEPT !.pc = "loop", !.homepage = homepage,
                                   !.non_homepage = non_homepage, !.batch_num = 0]

TotalBatches(n, batch_size) == (n + batch_size - 1) \div batch_size

filter_output_mutant_no_homepage(homepage, filtered) == filtered

\* filtered_pages.insert(0, homepage) when there is a homepage
filter_output(homepage, filtered) == homepage \o filtered

\* One iteration of the batch loop.  The classifier either answers with any list
\* of urls (of the batch or not), or the call, the parsing of its answer or the
\* update of the set fails (after llm_urls were added) and the whole batch is
\* taken as relevant.
FilterBatch(llm_ok, llm_urls) ==
    /\ flt.pc = "loop"
    /\ flt.batch_num < TotalBatches(Len(flt.non_homepage), flt.batch_size)
    /\ LET start_idx == flt.batch_num * flt.batch_size
           end_idx == SeqMin(start_idx + flt.batch_size, Len(flt.non_homepage))
           batch == {flt.non_homepage[i].url : i \in (start_idx + 1)..end_idx}
       IN  flt' = [flt EXCEPT !.batch_num = @ + 1,
                              !.failed = @ \/ ~llm_ok,
                              !.relevant_urls = @ \cup llm_urls \cup (IF llm_ok THEN {} ELSE batch)]

\* After the loop: the relevant pages in the iteration order of the set of
\* relevant urls, the homepage put first.
FilterFinish(order) ==
    /\ flt.pc = "loop"
    /\ flt.batch_num = TotalBatches(Len(flt.non_homepage), flt.batch_size)
    /\ LET known == {u \in flt.relevant_urls :
                        \E i \in 1..Len(flt.non_homepage) : flt.non_homepage[i].url = u}
       IN  /\ order \in Orderings(known)
           /\ flt' = [flt EXCEPT !.pc = "done",
                        !.out = filter_output(flt.homepage,
                                  [i \in 1..Len(order) |-> UrlToPage(flt.non_homepage, order[i])])]

\* =========================================================================
\* The project row, its jobs, pages and artifact; the task queue (tasks.py,
\* api/routes).  One project is modelled: every query and update of the tasks
\* is filtered by project_id, and the queue carries only its tasks.
\* =========================================================================
Workers == 1..NumWorkers
Pages == 1..NumPages

\* projects.check_interval_hours defaults to 24; `or 24` in the trigger
ProjectDefaultInterval == 24
MIN_CHECK_INTERVAL == 24
MAX_CHECK_INTERVAL == 168
max_retries == 3
lightweight_change_threshold_percent == 20

RescrapeReasons == {"manual", "scheduled_check", "lightweight_change_detected"}

\* Project(url, name): the column defaults
NewProject ==
    [status |-> "pending", check_interval_hours |-> ProjectDefaultInterval,
     next_check_at |-> None, next_lightweight_check_at |-> None,
     last_lightweight_rescrape_at |-> None]

\* CrawlJob(project_id, trigger_reason): status defaults to "pending"
NewJob(reason) == [trigger_reason |-> reason, status |-> "pending"]

\* A page row of the current version: the four fingerprints of the probe.
\* A page row as initial_crawl writes it: no fingerprint of the origin yet;
\* baseline stands for first_paragraph and content_hash, the crawled content.
CrawledContent == 1

FreshPage == [etag |-> None, last_modified_header |-> None,
              content_length |-> None, sample_hash |-> None, baseline |-> CrawledContent]

NoPlan == [kind |-> "none", rule |-> FALSE, any_changes |-> FALSE, write |-> FALSE]

IdleWorker == [pc |-> "idle", task |-> "none", job |-> 0, retries |-> 0,
               max_read |-> 0, plan |-> NoPlan]

\* The pool hands a task to a free process; which one is immaterial, so it is
\* the first free one.
FirstIdle(w) ==
    /\ workers[w].pc = "idle"
    /\ \A v \in Workers : v < w => workers[v].pc # "idle"

\* seen: the HEAD answers of a run that ended on the non-significant branch
NoRet ==
    [trigger |-> "none", identical |-> FALSE, result |-> "none", reason |-> "none", gets |-> {},
     seen |-> <<>>]

Msg(task, job, retries) == [id |-> enqueued + 1, task |-> task, job |-> job, retries |-> retries]

\* task.delay(...): one more message on the broker
Enqueue(task, job, retries) ==
    /\ enqueued < MaxTasks
    /\ queue' = queue \cup {Msg(task, job, retries)}
    /\ enqueued' = enqueued + 1

\* a worker takes message m and, on return, acknowledges it
TakeAndEnqueue(m, task, job, retries) ==
    /\ enqueued < MaxTasks
    /\ queue' = (queue \ {m}) \cup {Msg(task, job, retries)}
    /\ enqueued' = enqueued + 1

Take(m) ==
    /\ queue' = queue \ {m}
    /\ UNCHANGED enqueued

MaxFileVersion == IF versions = {} THEN 0
                  ELSE CHOOSE v \in {r.version : r \in versions} :
                         \A r \in versions : r.version <= v

NextFileVersion_mutant_skip(max_file_version) == max_file_version + 2

\* new_file_version = max_file_version + 1
NextFileVersion(max_file_version) == max_file_version + 1

Hours(h) == h * MinutesPerHour

\* ---------------------------------------------------------- API routes
\* POST /projects/{id}/recrawl: 409 while a crawl is pending or running
recrawl_project ==
    /\ project.status \notin {"pending", "crawling"}
    /\ project' = [project EXCEPT !.status = "pending"]
    /\ jobs' = Append(jobs, NewJob("manual"))
    /\ Enqueue("initial_crawl", Len(jobs) + 1, 0)
    /\ lastOp' = "recrawl_project"
    /\ lastRet' = NoRet
    /\ UNCHANGED <<workers, curated, artifact, versions, pages, pageVersion, quiet>>

recrawl_project_conflict_mutant_accept ==
    /\ project.status \in {"pending", "crawling"}
    /\ project' = [project EXCEPT !.status = "pending"]
    /\ jobs' = Append(jobs, NewJob("manual"))
    /\ Enqueue("initial_crawl", Len(jobs) + 1, 0)
    /\ lastOp' = "recrawl_project"
    /\ lastRet' = NoRet
    /\ UNCHANGED <<workers, curated, artifact, versions, pages, pageVersion, quiet>>

\* The same request while a crawl is pending or running: HTTP 409 before
\* anything is written.
recrawl_project_conflict ==
    /\ project.status \in {"pending", "crawling"}
    /\ lastOp' = "recrawl_project"
    /\ lastRet' = [NoRet EXCEPT !.result = "conflict"]
    /\ UNCHANGED <<project, jobs, queue, enqueued, workers, curated, artifact, versions,
                   pages, pageVersion, quiet>>

\* POST /webhooks/change-detected: skipped unless the project is ready
handle_change_detected ==
    /\ project.status = "ready"
    /\ Enqueue("targeted_recrawl", 0, 0)
    /\ lastOp' = "handle_change_detected"
    /\ lastRet' = NoRet
    /\ UNCHANGED <<project, jobs, workers, curated, artifact, versions, pages, pageVersion, quiet>>

\* ------------------------------------------------- scheduled full check
IsDue(at) == at = None \/ at <= now

\* beat, hourly: dispatch check_single_project for the due ready project
check_projects_for_changes ==
    /\ project.status = "ready"
    /\ IsDue(project.next_check_at)
    /\ Enqueue("check_single_project", 0, 0)
    /\ project' = [project EXCEPT
                     !.next_check_at = now + Hours(project.check_interval_hours)]
    /\ lastOp' = "check_projects_for_changes"
    /\ lastRet' = NoRet
    /\ UNCHANGED <<jobs, workers, curated, artifact, versions, pages, pageVersion, quiet>>

check_single_project(m) ==
    /\ m \in queue
    /\ m.task = "check_single_project"
    /\ IF project.status # "ready"
       THEN /\ Take(m)
            /\ UNCHANGED <<project, jobs>>
            /\ lastRet' = [NoRet EXCEPT !.result = "skipped"]
       ELSE /\ jobs' = Append(jobs, NewJob("scheduled_check"))
            /\ project' = [project EXCEPT !.status = "pending"]
            /\ TakeAndEnqueue(m, "initial_crawl", Len(jobs) + 1, 0)
            /\ lastRet' = NoRet
    /\ lastOp' = "check_single_project"
    /\ UNCHANGED <<workers, curated, artifact, versions, pages, pageVersion, quiet>>

schedule_next_check_mutant_keep(pr, changed) ==
    LET interval == IF changed THEN MIN_CHECK_INTERVAL
                    ELSE Min(pr.check_interval_hours, MAX_CHECK_INTERVAL)
    IN  [pr EXCEPT !.check_interval_hours = interval,
                   !.next_check_at = now + Hours(interval)]

\* _schedule_next_check(project, changed)
schedule_next_check(pr, changed) ==
    LET interval == IF changed THEN MIN_CHECK_INTERVAL
                    ELSE Min(pr.check_interval_hours * 2, MAX_CHECK_INTERVAL)
    IN  [pr EXCEPT !.check_interval_hours = interval,
                   !.next_check_at = now + Hours(interval)]

\* --------------------------------------------------- lightweight checks
\* beat, every minute: dispatch lightweight_batch_check for the due ready project
dispatch_lightweight_checks ==
    /\ project.status = "ready"
    /\ IsDue(project.next_lightweight_check_at)
    /\ Enqueue("lightweight_batch_check", 0, 0)
    /\ project' = [project EXCEPT
                     !.next_lightweight_check_at = now + lightweight_check_interval_minutes]
    /\ lastOp' = "dispatch_lightweight_checks"
    /\ lastRet' = NoRet
    /\ UNCHANGED <<jobs, workers, curated, artifact, versions, pages, pageVersion, quiet>>

\* What the origin answers to the HEAD of one page: a network error, 304, or
\* a response with any of ETag, Last-Modified, Content-Length (None = absent).
HeadError == [kind |-> "error", etag |-> None, last_modified |-> None, content_length |-> None]
Head304 == [kind |-> "304", etag |-> None, last_modified |-> None, content_length |-> None]
HeadOk(e, l, c) == [kind |-> "ok", etag |-> e, last_modified |-> l, content_length |-> c]

HeaderTriples == {<<None, None, None>>, <<1, None, None>>, <<2, None, None>>,
                  <<None, 1, None>>, <<None, None, 1>>, <<1, 1, 1>>}
HeadResponses == {HeadError, Head304} \cup {HeadOk(t[1], t[2], t[3]) : t \in HeaderTriples}

\* The semantic fingerprint of the body a GET returns; None: the GET failed.
BodyHashes == {None, 1, 2}

check_one_mutant_etag_present(page, resp) ==
    IF resp.kind # "ok"
    THEN [changed |-> FALSE, error |-> resp.kind = "error", is_first_check |-> FALSE,
          needs_sample_check |-> FALSE, has_no_headers |-> FALSE,
          new_etag |-> None, new_last_modified |-> None, new_content_length |-> None]
    ELSE [changed |-> page.etag # None /\ resp.etag # None,
          error |-> FALSE,
          is_first_check |-> /\ page.etag = None /\ page.last_modified_header = None
                             /\ page.content_length = None /\ page.sample_hash = None,
          needs_sample_check |-> FALSE,
          has_no_headers |-> /\ resp.etag = None /\ resp.last_modified = None
                             /\ resp.content_length = None,
          new_etag |-> resp.etag, new_last_modified |-> resp.last_modified,
          new_content_length |-> resp.content_length]

\* a probe that counts a page it could not reach as changed
check_one_mutant_error_changed(page, resp) ==
    IF resp.kind = "error"
    THEN [changed |-> TRUE, error |-> TRUE, is_first_check |-> FALSE,
          needs_sample_check |-> FALSE, has_no_headers |-> FALSE,
          new_etag |-> None, new_last_modified |-> None, new_content_length |-> None]
    ELSE [changed |-> page.etag # None /\ resp.etag # None /\ resp.etag # page.etag,
          error |-> FALSE,
          is_first_check |-> /\ page.etag = None /\ page.last_modified_header = None
                             /\ page.content_length = None /\ page.sample_hash = None,
          needs_sample_check |-> FALSE,
          has_no_headers |-> FALSE,
          new_etag |-> resp.etag, new_last_modified |-> resp.last_modified,
          new_content_length |-> resp.content_length]

\* check_one(page): the result of the HEAD probe of one page
check_one(page, resp) ==
    IF resp.kind = "error"
    THEN [changed |-> FALSE, error |-> TRUE, is_first_check |-> FALSE,
          needs_sample_check |-> FALSE, has_no_headers |-> FALSE,
          new_etag |-> None, new_last_modified |-> None, new_content_length |-> None]
    ELSE IF resp.kind = "304"
    THEN [changed |-> FALSE, error |-> FALSE, is_first_check |-> FALSE,
          needs_sample_check |-> FALSE, has_no_headers |-> FALSE,
          new_etag |-> None, new_last_modified |-> None, new_content_length |-> None]
    ELSE LET etag_changed == page.etag # None /\ resp.etag # None /\ resp.etag # page.etag
             lm_changed == /\ page.last_modified_header # None
                           /\ resp.last_modified # None
                           /\ resp.last_modified # page.last_modified_header
             cl_changed == /\ page.content_length # None
                           /\ resp.content_length # None
                           /\ page.content_length # resp.content_length
             has_any_prior == \/ page.etag # None
                              \/ page.last_modified_header # None
                              \/ page.content_length # None
                              \/ page.sample_hash # None
             is_first_check == ~has_any_prior
             has_no_headers == /\ resp.etag = None
                               /\ resp.last_modified = None
                               /\ resp.content_length = None
         IN  [changed |-> etag_changed \/ lm_changed \/ cl_changed,
              error |-> FALSE,
              is_first_check |-> is_first_check,
              needs_sample_check |-> has_no_headers /\ ~is_first_check /\ page.sample_hash # None,
              has_no_headers |-> has_no_headers,
              new_etag |-> resp.etag, new_last_modified |-> resp.last_modified,
              new_content_length |-> resp.content_length]

\* first-check pages: store the headers observed, and the sample hash of a
\* header-less page whose body could be fetched
StoreFirstCheck(page, r, body) ==
    [etag |-> IF r.new_etag # None THEN r.new_etag ELSE page.etag,
     last_modified_header |-> IF r.new_last_modified # None THEN r.new_last_modified
                              ELSE page.last_modified_header,
     content_length |-> IF r.new_content_length # None THEN r.new_content_length
                        ELSE page.content_length,
     sample_hash |-> IF r.has_no_headers /\ body # None THEN body ELSE page.sample_hash,
     baseline |-> page.baseline]

\* an update of the ETags that also moves the baseline to the fetched content
StoreEtags_mutant_advance_baseline(page, r) ==
    [page EXCEPT !.etag = IF r.new_etag # None THEN r.new_etag ELSE @,
                 !.last_modified_header = IF r.new_last_modified # None
                                          THEN r.new_last_modified ELSE @,
                 !.baseline = CrawledContent + 1]

\* non-significant change: "update ETags only"
StoreEtags(page, r) ==
    [page EXCEPT !.etag = IF r.new_etag # None THEN r.new_etag ELSE @,
                 !.last_modified_header = IF r.new_last_modified # None
                                          THEN r.new_last_modified ELSE @]

\* time_since_last < cooldown, for a project that has triggered before
InCooldown(pr) ==
    /\ pr.last_lightweight_rescrape_at # None
    /\ now - pr.last_lightweight_rescrape_at < Hours(full_rescrape_cooldown_hours)

trigger_project_mutant_no_stamp(pr) ==
    [pr EXCEPT !.status = "pending",
               !.next_check_at = now + Hours(IF pr.check_interval_hours # 0
                                             THEN pr.check_interval_hours
                                             ELSE ProjectDefaultInterval)]

\* _trigger_lightweight_rescrape, the project columns it sets
trigger_project(pr) ==
    [pr EXCEPT !.status = "pending",
               !.last_lightweight_rescrape_at = now,
               !.next_check_at = now + Hours(IF pr.check_interval_hours # 0
                                             THEN pr.check_interval_hours
                                             ELSE ProjectDefaultInterval)]

\* _trigger_lightweight_rescrape(session, project) and the caller's commit,
\* inside task message m; pg is the page table the task leaves.
trigger_lightweight_rescrape(m, pg, ret) ==
    IF InCooldown(project)
    THEN /\ Take(m)
         /\ pages' = pg
         /\ UNCHANGED <<project, jobs>>
         /\ lastRet' = [ret EXCEPT !.trigger = "cooldown", !.result = "rescrape_skipped"]
    ELSE /\ jobs' = Append(jobs, NewJob("lightweight_change_detected"))
         /\ project' = trigger_project(project)
         /\ TakeAndEnqueue(m, "initial_crawl", Len(jobs) + 1, 0)
         /\ pages' = pg
         /\ lastRet' = [ret EXCEPT !.trigger = "triggered", !.result = "rescrape_triggered"]

\* The task fetches the body of a page only for the sample of a header-less
\* first check, for a sample check, or when the headers have changed.
FetchesBody(page, r) ==
    \/ r.is_first_check /\ ~r.error /\ r.has_no_headers
    \/ r.needs_sample_check
    \/ r.changed

\* The bodies a run can observe: None for every page it does not fetch.
FetchedBodies(resp) ==
    {body \in [Pages -> BodyHashes] :
        \A p \in Pages :
            body[p] # None => FetchesBody(pages[p], check_one(pages[p], resp[p]))}

\* The analyzer gives a verdict only on fetched pages.
Verdicts(body) == IF \E p \in Pages : body[p] # None THEN BOOLEAN ELSE {FALSE}

\* a run that fetches the changed pages before it tests the threshold
SampleFetches_mutant_fetch_first(results) ==
    IF \E p \in Pages : results[p].changed THEN {"fetch_changed"} ELSE {}

\* ghost: the GET requests of a run, by the function that issues them.
\* fetch_samples takes the header-less pages of a first check;
\* check_sample_hashes takes the pages that need a sample check when no HEAD
\* answer showed a change.
SampleFetches(results) ==
    LET changed_results == {p \in Pages : results[p].changed}
        needs_sample_check == {p \in Pages : results[p].needs_sample_check}
    IN  (IF \E p \in Pages : /\ results[p].is_first_check /\ ~results[p].error
                             /\ results[p].has_no_headers
         THEN {"fetch_samples"} ELSE {})
        \cup (IF needs_sample_check # {} /\ changed_results = {}
              THEN {"check_sample_hashes"} ELSE {})

\* fetch_changed: one GET per changed page, below the bulk threshold only
fetch_changed(all_changed) ==
    IF all_changed # {} THEN {"fetch_changed"} ELSE {}

\* the origin's answers equal what is stored, page by page
IdenticalHeaders(resp) ==
    \A p \in Pages :
        \/ resp[p].kind = "304"
        \/ /\ resp[p].kind = "ok"
           /\ resp[p].etag = pages[p].etag
           /\ resp[p].last_modified = pages[p].last_modified_header
           /\ resp[p].content_length = pages[p].content_length

Finish(m, pg, result, ret) ==
    /\ Take(m)
    /\ pages' = pg
    /\ lastRet' = [ret EXCEPT !.result = result]
    /\ UNCHANGED <<project, jobs>>

\* lightweight_batch_check(project_id).  resp: the HEAD answers; body: the
\* fingerprints of the bodies fetched (sample fetch, sample check, fetch of
\* changed pages); significant: the analyzer's verdict on the fetched pages.
\* The quiet pages of the project never answer a HEAD.
lightweight_batch_check(m, resp, body, significant) ==
    /\ m \in queue
    /\ m.task = "lightweight_batch_check"
    /\ lastOp' = "lightweight_batch_check"
    /\ UNCHANGED <<workers, curated, artifact, versions, pageVersion, quiet>>
    /\ IF project.status # "ready" \/ pageVersion = 0
       THEN Finish(m, pages, "skipped", NoRet)
       ELSE
       LET total == NumPages + quiet
           results == [p \in Pages |-> check_one(pages[p], resp[p])]
           changed_results == {p \in Pages : results[p].changed}
           first_check_results == {p \in Pages : results[p].is_first_check /\ ~results[p].error}
           needs_sample_check == {p \in Pages : results[p].needs_sample_check}
           stored == [p \in Pages |->
                        IF p \in first_check_results
                        THEN StoreFirstCheck(pages[p], results[p], body[p])
                        ELSE pages[p]]
           sample_changed ==
               IF needs_sample_check # {} /\ changed_results = {}
               THEN {p \in needs_sample_check :
                        stored[p].sample_hash # None /\ body[p] # None
                        /\ body[p] # stored[p].sample_hash}
               ELSE {}
           all_changed == changed_results \cup sample_changed
           fetched == {p \in all_changed : body[p] # None}
           identical == IdenticalHeaders(resp) /\ quiet = 0
           sampled == SampleFetches(results)
           ret == [NoRet EXCEPT !.identical = identical, !.gets = sampled]
           analysed == [ret EXCEPT !.gets = sampled \cup fetch_changed(all_changed)]
       IN  IF all_changed = {}
           THEN Finish(m, stored, "no_change", ret)
           ELSE IF Cardinality(all_changed) * 100 > lightweight_change_threshold_percent * total
           THEN trigger_lightweight_rescrape(m, stored, [ret EXCEPT !.reason = "bulk_change"])
           ELSE IF fetched = {}
           THEN Finish(m, stored, "fetch_failed", analysed)
           ELSE IF significant
           THEN trigger_lightweight_rescrape(m, stored, analysed)
           ELSE Finish(m,
                       [p \in Pages |->
                          IF p \in fetched
                          THEN StoreEtags(stored[p], results[p]) ELSE stored[p]],
                       "not_significant", [analysed EXCEPT !.seen = resp])

\* ------------------------------------------------------- initial_crawl
\* The task up to its first commit: no check of the status; the project is
\* marked crawling and the job running.
initial_crawl_start(w, m) ==
    /\ m \in queue
    /\ m.task = "initial_crawl"
    /\ FirstIdle(w)
    /\ Take(m)
    /\ project' = [project EXCEPT !.status = "crawling"]
    /\ jobs' = [jobs EXCEPT ![m.job].status = "running"]
    /\ workers' = [workers EXCEPT ![w] =
                     [IdleWorker EXCEPT !.pc = "crawl", !.task = "initial_crawl",
                                        !.job = m.job, !.retries = m.retries]]
    /\ lastOp' = "initial_crawl_start"
    /\ lastRet' = NoRet
    /\ UNCHANGED <<curated, artifact, versions, pages, pageVersion, quiet>>

\* What a full curation can return: the numbers of curated pages and sections.
CurationSizes == {<<0, 0>>, <<2, 2>>}

\* The plan of a rescrape, from the counts of the analysis: (removed,
\* significant, new_relevant, new_sections).
RescrapePlan(removed, significant, new_relevant, new_sections) ==
    LET t == check_full_regeneration_threshold(curated.pages, removed, significant,
                                               new_relevant, curated.sections, new_sections)
        any_changes == removed > 0 \/ significant > 0 \/ new_relevant > 0
    IN  IF t.full
        THEN [kind |-> "full", rule |-> TRUE, any_changes |-> any_changes, write |-> TRUE]
        ELSE IF any_changes \/ new_sections > 0
        THEN [kind |-> "selective", rule |-> FALSE, any_changes |-> any_changes,
              write |-> curated.overview]
        ELSE [kind |-> "noop", rule |-> FALSE, any_changes |-> FALSE, write |-> FALSE]

\* The crawl, the analysis, the curation and the commit of the curated data and
\* of the page rows of the next version; for a plan that writes the artifact,
\* _assemble_and_save_llms_txt up to its query of the highest file version.
initial_crawl_curate(w, removed, significant, new_relevant, new_sections, size) ==
    /\ workers[w].pc = "crawl"
    /\ workers[w].task = "initial_crawl"
    /\ removed + significant <= curated.pages
    /\ new_sections > 0 => curated.overview
    /\ LET reason == jobs[workers[w].job].trigger_reason
           first == reason = "initial" \/ (reason = "manual" /\ curated.pages = 0)
           plan == IF first \/ reason \notin RescrapeReasons
                   THEN [kind |-> "full", rule |-> FALSE, any_changes |-> FALSE, write |-> TRUE]
                   ELSE RescrapePlan(removed, significant, new_relevant, new_sections)
       IN  /\ first => (removed = 0 /\ significant = 0 /\ new_relevant = 0 /\ new_sections = 0)
           /\ plan.kind # "full" => size = <<0, 0>>
           /\ curated' =
                IF plan.kind = "full"
                THEN [overview |-> TRUE, pages |-> size[1], sections |-> size[2],
                      rev |-> curated.rev + 1]
                ELSE IF plan.kind = "selective" /\ plan.any_changes
                THEN [curated EXCEPT !.pages = @ - removed, !.rev = @ + 1]
                ELSE curated
           /\ workers' = [workers EXCEPT ![w].pc = "assembled",
                                         ![w].plan = plan,
                                         ![w].max_read = MaxFileVersion]
    /\ pages' = [p \in Pages |-> FreshPage]
    /\ pageVersion' = pageVersion + 1
    /\ lastOp' = "initial_crawl_curate"
    /\ lastRet' = NoRet
    /\ UNCHANGED <<project, jobs, queue, enqueued, artifact, versions, quiet>>

VersionTaken(v) == \E r \in versions : r.version = v

\* a save that creates the current file and never updates it
SavedFile_mutant_insert_only(rev) ==
    IF artifact.exists THEN artifact ELSE [exists |-> TRUE, generated_at |-> now, rev |-> rev]

\* the current file after the save: updated if it exists, else created
SavedFile(rev) == [exists |-> TRUE, generated_at |-> now, rev |-> rev]

\* The exception handler: rollback, the job failed, and the retry (60 s later)
\* unless the task has used its retries.
CrawlException(w) ==
    /\ jobs' = [jobs EXCEPT ![workers[w].job].status = "failed"]
    /\ IF workers[w].retries < max_retries
       THEN Enqueue("initial_crawl", workers[w].job, workers[w].retries + 1)
       ELSE UNCHANGED <<queue, enqueued>>
    /\ workers' = [workers EXCEPT ![w] = IdleWorker]
    /\ UNCHANGED <<project, artifact, versions>>

\* The final commit: the file version row (rejected by the unique index on
\* (project_id, version) when the version was taken meanwhile), the current
\* file, the status, the next check and the job.
initial_crawl_finish(w) ==
    /\ workers[w].pc = "assembled"
    /\ workers[w].task = "initial_crawl"
    /\ LET plan == workers[w].plan
           reason == jobs[workers[w].job].trigger_reason
           new_file_version == NextFileVersion(workers[w].max_read)
           ready == [project EXCEPT !.status = "ready"]
       IN  IF plan.write /\ VersionTaken(new_file_version)
           THEN CrawlException(w)
           ELSE /\ versions' = IF plan.write
                               THEN versions \cup {[version |-> new_file_version,
                                                    generated_at |-> now, rev |-> curated.rev]}
                               ELSE versions
                /\ artifact' = IF plan.write
                               THEN SavedFile(curated.rev)
                               ELSE artifact
                /\ project' = IF reason \in {"scheduled_check", "lightweight_change_detected"}
                              THEN schedule_next_check(ready, plan.kind # "noop")
                              ELSE ready
                /\ jobs' = [jobs EXCEPT ![workers[w].job].status = "completed"]
                /\ workers' = [workers EXCEPT ![w] = IdleWorker]
                /\ UNCHANGED <<queue, enqueued>>
    /\ lastOp' = "initial_crawl_finish"
    /\ lastRet' = NoRet
    /\ UNCHANGED <<curated, pages, pageVersion, quiet>>

\* The crawler, the LLM or the database raises.
initial_crawl_fail(w) ==
    /\ workers[w].pc \in {"crawl", "assembled"}
    /\ workers[w].task = "initial_crawl"
    /\ CrawlException(w)
    /\ lastOp' = "initial_crawl_fail"
    /\ lastRet' = NoRet
    /\ UNCHANGED <<curated, pages, pageVersion, quiet>>

\* SoftTimeLimitExceeded after ten minutes.
initial_crawl_timeout(w) ==
    /\ workers[w].pc \in {"crawl", "assembled"}
    /\ workers[w].task = "initial_crawl"
    /\ jobs' = [jobs EXCEPT ![workers[w].job].status = "failed"]
    /\ project' = [project EXCEPT !.status = "failed"]
    /\ workers' = [workers EXCEPT ![w] = IdleWorker]
    /\ lastOp' = "initial_crawl_timeout"
    /\ lastRet' = NoRet
    /\ UNCHANGED <<queue, enqueued, curated, artifact, versions, pages, pageVersion, quiet>>

\* SoftTimeLimitExceeded is an Exception: raised while the task is inside one
\* of the blocks that catch Exception (map_website and batch_scrape in the
\* task, the batches of the LLM filter and of the significance check), it is
\* logged there and the task goes on.
initial_crawl_timeout_swallowed(w) ==
    /\ workers[w].pc = "crawl"
    /\ workers[w].task = "initial_crawl"
    /\ lastOp' = "initial_crawl_timeout_swallowed"
    /\ lastRet' = NoRet
    /\ UNCHANGED <<project, jobs, workers, queue, enqueued, curated, artifact, versions,
                   pages, pageVersion, quiet>>

\* ----------------------------------------------------- targeted_recrawl
\* Up to the first commit: a job "scheduled", running; the status is neither
\* read nor written.  Without a site overview the task calls initial_crawl
\* itself, in the same worker, for the job it has just created; a task called
\* directly sends no retry message.
targeted_recrawl_start(w, m) ==
    /\ m \in queue
    /\ m.task = "targeted_recrawl"
    /\ FirstIdle(w)
    /\ Take(m)
    /\ jobs' = Append(jobs, [trigger_reason |-> "scheduled", status |-> "running"])
    /\ IF curated.overview
       THEN /\ workers' = [workers EXCEPT ![w] =
                             [IdleWorker EXCEPT !.pc = "crawl", !.task = "targeted_recrawl",
                                                !.job = Len(jobs) + 1]]
            /\ UNCHANGED project
       ELSE /\ workers' = [workers EXCEPT ![w] =
                             [IdleWorker EXCEPT !.pc = "crawl", !.task = "initial_crawl",
                                                !.job = Len(jobs) + 1,
                                                !.retries = max_retries]]
            /\ project' = [project EXCEPT !.status = "crawling"]
    /\ lastOp' = "targeted_recrawl_start"
    /\ lastRet' = NoRet
    /\ UNCHANGED <<curated, artifact, versions, pages, pageVersion, quiet>>

\* The recrawl of the changed urls.  Nothing changed: the job completes and the
\* artifact is kept.  Otherwise the curated data is updated and committed and
\* the highest file version is read.
targeted_recrawl_update(w, changed) ==
    /\ workers[w].pc = "crawl"
    /\ workers[w].task = "targeted_recrawl"
    /\ IF ~changed
       THEN /\ jobs' = [jobs EXCEPT ![workers[w].job].status = "completed"]
            /\ workers' = [workers EXCEPT ![w] = IdleWorker]
            /\ UNCHANGED curated
       ELSE /\ curated' = [curated EXCEPT !.rev = @ + 1]
            /\ workers' = [workers EXCEPT ![w].pc = "assembled",
                                          ![w].max_read = MaxFileVersion,
                                          ![w].plan = [NoPlan EXCEPT !.kind = "targeted",
                                                                     !.write = curated.overview]]
            /\ UNCHANGED jobs
    /\ lastOp' = "targeted_recrawl_update"
    /\ lastRet' = NoRet
    /\ UNCHANGED <<project, queue, enqueued, artifact, versions, pages, pageVersion, quiet>>

\* The final commit, or its rollback when the version was taken meanwhile.
targeted_recrawl_finish(w) ==
    /\ workers[w].pc = "assembled"
    /\ workers[w].task = "targeted_recrawl"
    /\ LET new_file_version == NextFileVersion(workers[w].max_read)
       IN  IF VersionTaken(new_file_version)
           THEN UNCHANGED <<versions, artifact, jobs>>
           ELSE /\ versions' = versions \cup {[version |-> new_file_version,
                                               generated_at |-> now, rev |-> curated.rev]}
                /\ artifact' = SavedFile(curated.rev)
                /\ jobs' = [jobs EXCEPT ![workers[w].job].status = "completed"]
    /\ workers' = [workers EXCEPT ![w] = IdleWorker]
    /\ lastOp' = "targeted_recrawl_finish"
    /\ lastRet' = NoRet
    /\ UNCHANGED <<project, queue, enqueued, curated, pages, pageVersion, quiet>>

\* An exception: rollback and return {"error": ...}; the job stays running.
targeted_recrawl_fail(w) ==
    /\ workers[w].pc \in {"crawl", "assembled"}
    /\ workers[w].task = "targeted_recrawl"
    /\ workers' = [workers EXCEPT ![w] = IdleWorker]
    /\ lastOp' = "targeted_recrawl_fail"
    /\ lastRet' = NoRet
    /\ UNCHANGED <<project, jobs, queue, enqueued, curated, artifact, versions, pages,
                   pageVersion, quiet>>

\* The clock of the project tasks advances by one hour.
ProjectTick ==
    /\ now + MinutesPerHour <= Hours(MaxProjectHours)
    /\ now' = now + MinutesPerHour

TaskTick ==
    /\ now + MinutesPerHour <= Hours(MaxTaskHours)
    /\ now' = now + MinutesPerHour


\* =========================================================================
\* Specifications
\* =========================================================================
NoneOr(S) == {None} \cup S
Limits == {1, 100}

NoCurated == [overview |-> FALSE, pages |-> 0, sections |-> 0, rev |-> 0]
NoArtifact == [exists |-> FALSE, generated_at |-> None, rev |-> 0]

\* The project after POST /projects: pending, its "initial" job, and the
\* initial_crawl task on the broker.
ProjectCreated ==
    /\ project = NewProject
    /\ jobs = <<NewJob("initial")>>
    /\ queue = {[id |-> 1, task |-> "initial_crawl", job |-> 1, retries |-> 0]}
    /\ enqueued = 1
    /\ workers = [w \in Workers |-> IdleWorker]
    /\ curated = NoCurated
    /\ artifact = NoArtifact
    /\ versions = {}
    /\ pages = [p \in Pages |-> FreshPage]
    /\ pageVersion = 0
    /\ quiet = 0
    /\ lastOp = "create_project"
    /\ lastRet = NoRet

\* The project after its initial crawl (at time 0): ready, version 1 of the
\* artifact, fresh page rows; and the same project after a rescrape that a
\* lightweight check triggered at time 0 and that changed nothing.
ProjectCrawled(retriggered) ==
    /\ project = IF retriggered
                 THEN [status |-> "ready", check_interval_hours |-> 2 * ProjectDefaultInterval,
                       next_check_at |-> Hours(2 * ProjectDefaultInterval),
                       next_lightweight_check_at |-> lightweight_check_interval_minutes,
                       last_lightweight_rescrape_at |-> 0]
                 ELSE [NewProject EXCEPT !.status = "ready"]
    /\ jobs = IF retriggered
              THEN <<[trigger_reason |-> "initial", status |-> "completed"],
                     [trigger_reason |-> "lightweight_change_detected", status |-> "completed"]>>
              ELSE <<[trigger_reason |-> "initial", status |-> "completed"]>>
    /\ queue = {}
    /\ enqueued = 0
    /\ workers = [w \in Workers |-> IdleWorker]
    /\ curated = [overview |-> TRUE, pages |-> 2, sections |-> 2, rev |-> 1]
    /\ artifact = [exists |-> TRUE, generated_at |-> 0, rev |-> 1]
    /\ versions = {[version |-> 1, generated_at |-> 0, rev |-> 1]}
    /\ pages = [p \in Pages |-> FreshPage]
    /\ pageVersion = IF retriggered THEN 2 ELSE 1
    /\ lastOp = "initial_crawl_finish"
    /\ lastRet = NoRet

\* The crawled project after its first lightweight check, run at the current
\* time: the origin sent an ETag for every page, and it was stored.
ProjectProbed(retriggered) ==
    /\ project = IF retriggered
                 THEN [status |-> "ready", check_interval_hours |-> 2 * ProjectDefaultInterval,
                       next_check_at |-> Hours(2 * ProjectDefaultInterval),
                       next_lightweight_check_at |-> now + lightweight_check_interval_minutes,
                       last_lightweight_rescrape_at |-> 0]
                 ELSE [NewProject EXCEPT
                         !.status = "ready",
                         !.next_lightweight_check_at = now + lightweight_check_interval_minutes]
    /\ jobs = IF retriggered
              THEN <<[trigger_reason |-> "initial", status |-> "completed"],
                     [trigger_reason |-> "lightweight_change_detected", status |-> "completed"]>>
              ELSE <<[trigger_reason |-> "initial", status |-> "completed"]>>
    /\ queue = {}
    /\ enqueued = 0
    /\ workers = [w \in Workers |-> IdleWorker]
    /\ curated = [overview |-> TRUE, pages |-> 2, sections |-> 2, rev |-> 1]
    /\ artifact = [exists |-> TRUE, generated_at |-> 0, rev |-> 1]
    /\ versions = {[version |-> 1, generated_at |-> 0, rev |-> 1]}
    /\ pages = [p \in Pages |-> [FreshPage EXCEPT !.etag = 1]]
    /\ pageVersion = IF retriggered THEN 2 ELSE 1
    /\ lastOp = "lightweight_batch_check"
    /\ lastRet = [NoRet EXCEPT !.result = "no_change"]

\* =========================================================================
\* URL normalisation (tasks.py)
\* =========================================================================
\* A URL is the sequence of the characters that follow its origin.
UrlChars == {"a", "A", "b", "/"}

\* str.lower
char_lower(c) == IF c = "A" THEN "a" ELSE c

str_lower(s) == [i \in 1..Len(s) |-> char_lower(s[i])]

\* str.rstrip("/")
RECURSIVE rstrip(_)
rstrip(s) == IF Len(s) > 0 /\ s[Len(s)] = "/" THEN rstrip(SubSeq(s, 1, Len(s) - 1)) ELSE s

normalize_url_mutant_one_slash(url) ==
    str_lower(IF Len(url) > 0 /\ url[Len(url)] = "/" THEN SubSeq(url, 1, Len(url) - 1) ELSE url)

normalize_url(url) == str_lower(rstrip(url))

NrmIdle == [pc |-> "idle", url |-> <<>>, once |-> <<>>, twice |-> <<>>]

\* key = _normalize_url(url)
NormalizeOnce ==
    /\ nrm.pc = "input"
    /\ nrm' = [nrm EXCEPT !.pc = "once", !.once = normalize_url(nrm.url)]

\* the key of a key: _normalize_url of a stored, already normalised URL
NormalizeTwice ==
    /\ nrm.pc = "once"
    /\ nrm' = [nrm EXCEPT !.pc = "twice", !.twice = normalize_url(nrm.once)]

\* =========================================================================
\* The URL inventory (tasks.py)
\* =========================================================================
MaxInventoryCalls == 2
MaxMappedUrls == 2

\* what map_website returns: spellings of the pages a and b, the homepage and
\* an empty entry
MappedUrls == {<<>>, <<"/">>, <<"a">>, <<"A">>, <<"a", "/">>, <<"b">>, <<"a", "b">>}

NoInventoryRet == [new_urls |-> {}, removed_urls |-> {}, existing_urls |-> {}, total_stored |-> 0]

\* rows: the site_url_inventories rows of the project; calls: the number of
\* calls so far, which is also the time of the last one; passed: every key
\* ever passed; before, incoming, ret: the rows before the last call, its
\* keys and what it returned
InvIdle == [rows |-> {}, calls |-> 0, passed |-> {}, before |-> {}, incoming |-> {}, ret |-> NoInventoryRet]

\* incoming_urls = {_normalize_url(url): url for url in urls if url}: of the
\* spellings of one key the last one stays
IncomingUrls(urls) ==
    LET given == {i \in 1..Len(urls) : urls[i] # <<>>}
        keys == {normalize_url(urls[i]) : i \in given}
    IN  [k \in keys |-> urls[CHOOSE i \in given :
                                /\ normalize_url(urls[i]) = k
                                /\ \A j \in given : normalize_url(urls[j]) = k => j <= i]]

InventoryAfter_mutant_delete_removed(rows, new_url_keys, existing_url_keys, at) ==
    {[r EXCEPT !.last_seen_at = at] : r \in {q \in rows : normalize_url(q.url) \in existing_url_keys}}
    \cup {[url |-> k, first_seen_at |-> at, last_seen_at |-> at] : k \in new_url_keys}

\* session.add for the new keys, last_seen_at = now for the existing ones
InventoryAfter(rows, new_url_keys, existing_url_keys, at) ==
    {IF normalize_url(r.url) \in existing_url_keys THEN [r EXCEPT !.last_seen_at = at] ELSE r : r \in rows}
    \cup {[url |-> k, first_seen_at |-> at, last_seen_at |-> at] : k \in new_url_keys}

store_url_inventory(urls) ==
    /\ inv.calls < MaxInventoryCalls
    /\ LET at == inv.calls + 1
           existing_url_set == {normalize_url(r.url) : r \in inv.rows}
           incoming_urls == IncomingUrls(urls)
           incoming_url_set == DOMAIN incoming_urls
           new_url_keys == incoming_url_set \ existing_url_set
           removed_url_keys == existing_url_set \ incoming_url_set
           existing_url_keys == existing_url_set \cap incoming_url_set
       IN  inv' = [rows |-> InventoryAfter(inv.rows, new_url_keys, existing_url_keys, at),
                   calls |-> at,
                   passed |-> inv.passed \cup incoming_url_set,
                   before |-> inv.rows,
                   incoming |-> incoming_url_set,
                   ret |-> [new_urls |-> {incoming_urls[k] : k \in new_url_keys},
                            removed_urls |-> removed_url_keys,
                            existing_urls |-> {incoming_urls[k] : k \in existing_url_keys},
                            total_stored |-> Cardinality(incoming_url_set)]]

\* =========================================================================
\* Batch significance (services/change_analyzer.py)
\* =========================================================================
MaxChangedPages == 2
MaxTotalPages == 10

\* settings.lightweight_significance_threshold
lightweight_significance_threshold == 30

\* what _analyze_single_page returns for a fetched page: min(100, int(score))
PageScores == {0, 29, 30, 31, 100}

\* a score is kept as the fraction num / den; round(avg_score, 1) is not
\* applied
Fraction(num, den) == [num |-> num, den |-> den]

SigIdle == [pc |-> "idle", scores |-> <<>>, total_pages |-> 0,
            result |-> [significant |-> FALSE, score |-> Fraction(0, 1), reason |-> "none"]]

RECURSIVE SumScores(_)
SumScores(scores) == IF scores = <<>> THEN 0 ELSE scores[1] + SumScores(Tail(scores))

\* a / b > c / d for b, d > 0
RatioGreater(a, b, c, d) == a * d > c * b

analyze_batch_significance_mutant_ge(scores, total_pages, bulk_threshold_percent, significance_threshold) ==
    IF scores = <<>>
    THEN [significant |-> FALSE, score |-> Fraction(0, 1), reason |-> "no_changes"]
    ELSE IF total_pages > 0 /\ ~RatioGreater(bulk_threshold_percent, 100, Len(scores), total_pages)
    THEN [significant |-> TRUE, score |-> Fraction(100, 1), reason |-> "bulk_change"]
    ELSE LET is_significant == ~RatioGreater(significance_threshold, 1, SumScores(scores), Len(scores))
         IN  [significant |-> is_significant, score |-> Fraction(SumScores(scores), Len(scores)),
              reason |-> IF is_significant THEN "cumulative_drift" ELSE "below_threshold"]

\* scores: the score of _analyze_single_page for each of changed_pages
analyze_batch_significance(scores, total_pages, bulk_threshold_percent, significance_threshold) ==
    IF scores = <<>>
    THEN [significant |-> FALSE, score |-> Fraction(0, 1), reason |-> "no_changes"]
    ELSE IF total_pages > 0 /\ RatioGreater(Len(scores), total_pages, bulk_threshold_percent, 100)
    THEN [significant |-> TRUE, score |-> Fraction(100, 1), reason |-> "bulk_change"]
    ELSE LET is_significant == ~RatioGreater(significance_threshold, 1, SumScores(scores), Len(scores))
         IN  [significant |-> is_significant, score |-> Fraction(SumScores(scores), Len(scores)),
              reason |-> IF is_significant THEN "cumulative_drift" ELSE "below_threshold"]

AnalyzeBatch ==
    /\ sig.pc = "input"
    /\ sig' = [sig EXCEPT !.pc = "done",
                          !.result = analyze_batch_significance(sig.scores, sig.total_pages,
                                         lightweight_change_threshold_percent,
                                         lightweight_significance_threshold)]

\* =========================================================================
\* The dispatch loops over all projects (tasks.py)
\* =========================================================================
LoopProjects == {1, 2}
MaxLoopRuns == 3
MaxLoopTicks == 2

CheckTasks == {"check_single_project", "lightweight_batch_check"}

\* the time between two runs: a minute, the lightweight interval, a day
LoopJumps == {1, lightweight_check_interval_minutes, 24 * MinutesPerHour}

NoRun == [op |-> "none", at |-> 0, before |-> <<>>, sent_before |-> <<>>, last_before |-> <<>>]

\* rows: the projects rows; sent: the messages sent so far, by task and
\* project; dispatched_at: ghost, the time of the last dispatch; run: ghost,
\* the last run, the rows it found and the counts before it
LoopIdle == [rows |-> <<>>, sent |-> <<>>, dispatched_at |-> <<>>, runs |-> 0, ticks |-> 0, run |-> NoRun]

\* the due column of a loop and the interval it adds, in minutes
DueOf(row, task) ==
    IF task = "check_single_project" THEN row.next_check_at ELSE row.next_lightweight_check_at

IntervalOf(row, task) ==
    IF task = "check_single_project" THEN row.check_interval_hours * MinutesPerHour
    ELSE lightweight_check_interval_minutes

DueProjects_mutant_any_status(rows, task) ==
    {p \in DOMAIN rows : DueOf(rows[p], task) = None \/ DueOf(rows[p], task) <= now}

\* filter(status == "ready", (due <= now) | due.is_(None))
DueProjects(rows, task) ==
    {p \in DOMAIN rows : /\ rows[p].status = "ready"
                         /\ (DueOf(rows[p], task) = None \/ DueOf(rows[p], task) <= now)}

\* one run of a loop: delay and the new due time for every due project,
\* then the commit
DispatchRun(task) ==
    /\ loop.runs < MaxLoopRuns
    /\ LET due_projects == DueProjects(loop.rows, task)
       IN  loop' = [loop EXCEPT
                      !.rows = [p \in DOMAIN loop.rows |->
                                  IF p \notin due_projects THEN loop.rows[p]
                                  ELSE IF task = "check_single_project"
                                  THEN [loop.rows[p] EXCEPT !.next_check_at = now + IntervalOf(loop.rows[p], task)]
                                  ELSE [loop.rows[p] EXCEPT !.next_lightweight_check_at = now + IntervalOf(loop.rows[p], task)]],
                      !.sent = [k \in DOMAIN loop.sent |->
                                  IF k[1] = task /\ k[2] \in due_projects THEN loop.sent[k] + 1 ELSE loop.sent[k]],
                      !.dispatched_at = [k \in DOMAIN loop.dispatched_at |->
                                  IF k[1] = task /\ k[2] \in due_projects THEN now ELSE loop.dispatched_at[k]],
                      !.runs = @ + 1,
                      !.run = [op |-> task, at |-> now, before |-> loop.rows, sent_before |-> loop.sent,
                               last_before |-> loop.dispatched_at]]
    /\ UNCHANGED now

\* beat, hourly
CheckProjectsForChangesRun == DispatchRun("check_single_project")

\* beat, every minute
DispatchLightweightChecksRun == DispatchRun("lightweight_batch_check")

LoopTick ==
    /\ loop.ticks < MaxLoopTicks
    /\ \E d \in LoopJumps : now' = now + d
    /\ loop' = [loop EXCEPT !.ticks = @ + 1]

\* =========================================================================
\* Selective section regeneration and the merger (tasks.py, llm_curator.py)
\* =========================================================================
SECTION_ORDER == <<"Platform Features", "Solutions", "Integrations", "Resources", "Pricing", "Company", "Other">>

\* ORDER BY name on the section names of the model
SectionNames == {"API", "Blog", "Company", "Other", "Platform Features", "Pricing", "Resources", "Solutions"}

NameRank == [n \in SectionNames |->
               CASE n = "API" -> 0 [] n = "Blog" -> 1 [] n = "Company" -> 2 [] n = "Other" -> 3
                 [] n = "Platform Features" -> 4 [] n = "Pricing" -> 5 [] n = "Resources" -> 6
                 [] n = "Solutions" -> 7]

\* ORDER BY url: character by character
CharRank == [c \in UrlChars |-> CASE c = "/" -> 1 [] c = "A" -> 2 [] c = "a" -> 3 [] c = "b" -> 4]

RECURSIVE UrlLess(_, _)
UrlLess(u, v) ==
    IF u = <<>> THEN v # <<>>
    ELSE IF v = <<>> THEN FALSE
    ELSE IF u[1] = v[1] THEN UrlLess(Tail(u), Tail(v))
    ELSE CharRank[u[1]] < CharRank[v[1]]

RECURSIVE PagesByUrl(_)
PagesByUrl(S) ==
    IF S = {} THEN <<>>
    ELSE LET first == CHOOSE r \in S : \A q \in S \ {r} : UrlLess(r.url, q.url)
         IN  <<first>> \o PagesByUrl(S \ {first})

RECURSIVE SectionsByName(_)
SectionsByName(S) ==
    IF S = {} THEN <<>>
    ELSE LET first == CHOOSE s \in S : \A q \in S \ {s} : NameRank[s.name] < NameRank[q.name]
         IN  <<first>> \o SectionsByName(S \ {first})

InSectionOrder(name) == \E i \in 1..Len(SECTION_ORDER) : SECTION_ORDER[i] = name

\* an assembly that keeps the sections in the order given
order_sections_mutant_as_given(sections) == sections

\* _order_sections: the sections of SECTION_ORDER in that order, then the others
order_sections(sections) ==
    LET named(n) == SelectSeq(sections, LAMBDA s : s.name = n)
        standard == [i \in 1..Len(SECTION_ORDER) |-> named(SECTION_ORDER[i])]
        RECURSIVE Flat(_)
        Flat(i) == IF i > Len(standard) THEN <<>> ELSE standard[i] \o Flat(i + 1)
    IN  Flat(1) \o SelectSeq(sections, LAMBDA s : ~InSectionOrder(s.name))

\* the path of the URL is empty or "/"
is_homepage_url(url) == rstrip(url) = <<>>

\* The lines of one section of the artifact: header, prose, links.
SectionText(section, section_pages) ==
    LET shown == SelectSeq(section_pages, LAMBDA p : ~is_homepage_url(p.url))
    IN  [name |-> section.name, description |-> section.description,
         links |-> [i \in 1..Len(shown) |-> [url |-> shown[i].url, description |-> shown[i].description]]]

assemble_llms_txt(sections) ==
    LET ordered == order_sections(sections)
    IN  [i \in 1..Len(ordered) |-> SectionText(ordered[i], ordered[i].pages)]

\* _assemble_and_save_llms_txt up to the call of the curator: the section rows
\* by name, each with the page rows of its category by url
StoredSections(section_rows, page_rows) ==
    LET by_name == SectionsByName(section_rows)
    IN  [i \in 1..Len(by_name) |->
           [name |-> by_name[i].name, description |-> by_name[i].description,
            pages |-> PagesByUrl({p \in page_rows : p.category = by_name[i].name})]]

Assembled(section_rows, page_rows) == assemble_llms_txt(StoredSections(section_rows, page_rows))

\* _assemble_and_save_llms_txt on the stored rows, a first and a second time
AssembleStored ==
    /\ sel.pc \in {"stored", "once"}
    /\ sel' = [sel EXCEPT !.pc = IF sel.pc = "stored" THEN "once" ELSE "twice",
                          !.file = Assembled(sel.sections, sel.rows),
                          !.before.file = sel.file]

MaxVersionOf(rows) == IF rows = {} THEN 0 ELSE CHOOSE v \in {r.version : r \in rows} : \A r \in rows : r.version <= v

\* ---------------------------------------------------- the curated state
UrlA == <<"a">>
UrlUpperA == <<"A">>
UrlASlash == <<"a", "/">>
UrlB == <<"b">>
UrlAB == <<"a", "b">>
UrlBA == <<"b", "a">>
UrlHome == <<"/">>
UrlNew == <<"b", "b">>

ExistingSections == {"Platform Features", "Resources"}
NewSections == {"Pricing"}

StoredPage(url, category) == [url |-> url, category |-> category, description |-> "stored", content_hash |-> "h1"]

\* What _save_curated_data stored: two sections; the pages b, ab, ba; and any
\* of the spellings a (a feature), A (in either section), a/ (a resource) of
\* one more page; and the homepage.
SubsetsUpTo(S, n) == {T \in SUBSET S : Cardinality(T) <= n}

CuratedLayouts ==
    {[sections |-> {[name |-> n, description |-> "stored"] : n \in ExistingSections},
      rows |-> {StoredPage(UrlB, "Resources"), StoredPage(UrlAB, "Resources"),
                StoredPage(UrlBA, "Platform Features")}
               \cup {StoredPage(u, cat[u]) : u \in DOMAIN cat}
               \cup {StoredPage(UrlHome, "Platform Features")}] :
       cat \in {c \in UNION {[S -> ExistingSections] : S \in SUBSET {UrlA, UrlUpperA, UrlASlash}} :
                  /\ UrlA \in DOMAIN c => c[UrlA] = "Platform Features"
                  /\ UrlASlash \in DOMAIN c => c[UrlASlash] = "Resources"}}

NoSelPlan == [removed_from_site |-> {}, curated_urls |-> <<>>, still_curated |-> {},
              pages_with_changes |-> {}, new_relevant_pages |-> {}, new_sections_needed |-> {},
              affected_sections |-> {}, regenerated_sections |-> {}]

SelIdle == [pc |-> "idle", sections |-> {}, rows |-> {}, file |-> <<>>, versions |-> {},
            plan |-> NoSelPlan, before |-> [sections |-> {}, rows |-> {}, file |-> <<>>, versions |-> {}]]

\* ------------------------------------------------------- the analysis
CuratedKeys(rows) == {normalize_url(r.url) : r \in rows}

\* curated_urls = {_normalize_url(p.url): p for p in curated_pages}: of the
\* rows with one key, the one the query returns last
RECURSIVE UrlMapsOver(_, _)
UrlMapsOver(keys, rows) ==
    IF keys = {} THEN {<<>>}
    ELSE LET k == CHOOSE x \in keys : TRUE
         IN  {(k :> r) @@ f : r \in {q \in rows : normalize_url(q.url) = k},
                              f \in UrlMapsOver(keys \ {k}, rows)}

CuratedUrlMaps(rows) == UrlMapsOver(CuratedKeys(rows), rows)

NewRelevantPages == {[url |-> UrlNew, category |-> c] : c \in ExistingSections \cup NewSections}

\* Steps 2 to 8 of the rescrape analysis and the choice of the path.
rescrape_analyse(removed_url_keys, curated_urls, scraped, significant, new_relevant_pages, new_sections_needed) ==
    /\ sel.pc = "start"
    /\ curated_urls \in CuratedUrlMaps(sel.rows)
    /\ LET curated_url_set == DOMAIN curated_urls
           removed_from_site == {url \in curated_url_set : url \in removed_url_keys}
           still_curated_urls == curated_url_set \ removed_from_site
           t == check_full_regeneration_threshold(
                    Cardinality(curated_url_set), Cardinality(removed_from_site),
                    Cardinality(significant), Cardinality(new_relevant_pages),
                    Cardinality(sel.sections), Cardinality(new_sections_needed))
           any_changes == removed_from_site # {} \/ significant # {} \/ new_relevant_pages # {}
           affected_sections ==
               {curated_urls[url].category : url \in removed_from_site}
               \cup {curated_urls[url].category : url \in significant}
               \cup {page.category : page \in new_relevant_pages}
       IN  /\ scraped \subseteq still_curated_urls
           /\ significant \subseteq scraped
           /\ sel' = [sel EXCEPT
                        !.pc = IF t.full THEN "full"
                               ELSE IF any_changes \/ new_sections_needed # {} THEN "selective"
                               ELSE "noop",
                        !.plan = [removed_from_site |-> removed_from_site,
                                  curated_urls |-> curated_urls,
                                  still_curated |-> scraped,
                                  pages_with_changes |-> significant,
                                  new_relevant_pages |-> new_relevant_pages,
                                  new_sections_needed |-> new_sections_needed,
                                  affected_sections |-> IF any_changes THEN affected_sections ELSE {},
                                  regenerated_sections |-> {}],
                        !.before = [sections |-> sel.sections, rows |-> sel.rows,
                                    file |-> sel.file, versions |-> sel.versions]]

\* ------------------------------------------- regeneration and the save
\* page_data_by_url: the keys of relevant_pages
PageDataKeys(plan) == plan.still_curated \cup {normalize_url(p.url) : p \in plan.new_relevant_pages}

\* section_pages of a section to regenerate, as keys of page_data_by_url
RegenSectionPages(rows, plan, name) ==
    ({normalize_url(cp.url) : cp \in {r \in rows : r.category = name}} \cap plan.still_curated)
    \cup {normalize_url(p.url) : p \in {q \in plan.new_relevant_pages : q.category = name}}

NewSectionPages(plan, name) == {p \in plan.new_relevant_pages : p.category = name}

\* the sections for which regenerate_section is called
RegeneratedNames(rows, plan) ==
    {n \in plan.affected_sections : RegenSectionPages(rows, plan, n) # {}}
    \cup {n \in plan.new_sections_needed : NewSectionPages(plan, n) # {}}

\* Step 1: delete where lower(url) = lower(removed url)
RemoveCuratedPages(rows, plan) ==
    {r \in rows : \A url \in plan.removed_from_site : str_lower(r.url) # str_lower(url)}

\* Step 2: the changed page takes the description that a regenerated
\* section returned for its key, if one did
UpdateChangedPages(rows, plan, described) ==
    LET changed == {plan.curated_urls[k] : k \in plan.pages_with_changes}
    IN  {IF r \in changed /\ normalize_url(r.url) \in described
         THEN [r EXCEPT !.description = "regenerated", !.content_hash = "h2"]
         ELSE r : r \in rows}

\* Step 3: the prose of every regenerated section that has a row
UpdateSectionDescriptions_mutant_all(sections, regenerated, description) ==
    {IF regenerated # {}
     THEN [s EXCEPT !.description = description[CHOOSE n \in regenerated : TRUE]]
     ELSE s : s \in sections}

UpdateSectionDescriptions(sections, regenerated, description) ==
    {IF s.name \in regenerated THEN [s EXCEPT !.description = description[s.name]] ELSE s :
       s \in sections}

\* The selective branch of the curation selector, the selective save and
\* _assemble_and_save_llms_txt, to the commit of the task.
selective_regenerate(description, page_description) ==
    /\ sel.pc = "selective"
    /\ LET plan == sel.plan
           regenerated == RegeneratedNames(sel.rows, plan)
           created == {n \in plan.new_sections_needed : NewSectionPages(plan, n) # {}}
           added_sections == {[name |-> n, description |-> description[n]] : n \in created}
           added_pages == {[url |-> p.url, category |-> p.category,
                            description |-> page_description[p.category], content_hash |-> ""] :
                             p \in {q \in plan.new_relevant_pages : q.category \in created}}
           rows1 == RemoveCuratedPages(sel.rows \cup added_pages, plan)
           described == UNION {RegenSectionPages(sel.rows, plan, n) \cup
                                 {normalize_url(q.url) : q \in NewSectionPages(plan, n)} :
                               n \in {r \in regenerated : page_description[r] # ""}}
           rows2 == UpdateChangedPages(rows1, plan, described)
           sections3 == UpdateSectionDescriptions(sel.sections \cup added_sections, regenerated,
                                                  description)
           content == Assembled(sections3, rows2)
       IN  /\ DOMAIN description = regenerated
           /\ DOMAIN page_description = regenerated
           /\ sel' = [sel EXCEPT
                        !.pc = "saved",
                        !.sections = sections3,
                        !.rows = rows2,
                        !.file = content,
                        !.versions = @ \cup {[version |-> NextFileVersion(MaxVersionOf(sel.versions)),
                                              content |-> content]},
                        !.plan.regenerated_sections = regenerated]

\* What the provider returns for a section: prose or nothing (a response that
\* does not parse), page descriptions or none.
SectionProse == {"", "regenerated"}

\* =========================================================================
\* Page rows under interleaved tasks (tasks.py)
\* =========================================================================
\* The pages of the site: /docs is crawled and curated, /legal is crawled and
\* was filtered out of the curated pages.
CrawledUrls == {"/docs", "/legal"}
CuratedUrls == {"/docs"}

Crawls == 1..MaxCrawls

PageRow(id, url, version, by) == [id |-> id, url |-> url, version |-> version, etag |-> None, content_hash |-> "h1", by |-> by]

\* (by is the full rescrape that wrote the row, 0 for any other writer)
\* session.query(func.max(Page.version)).scalar(), None when there is no row
MaxPageVersion(rows) ==
    IF rows = {} THEN None
    ELSE CHOOSE v \in {r.version : r \in rows} : \A r \in rows : r.version <= v

NoCrawl == [pc |-> "none", new_version |-> 0]

PvInit ==
    [status |-> "ready",
     rows |-> {PageRow(1, "/docs", 1, 0), PageRow(2, "/legal", 1, 0)},
     crawl |-> [c \in Crawls |-> NoCrawl],
     light |-> [pc |-> "idle", pages |-> {}, cooldown |-> FALSE, job |-> 0],
     targeted |-> [pc |-> "idle", max_version |-> 0, runs |-> 0]]

PvIdle == [status |-> "pending", rows |-> {}, crawl |-> [c \in Crawls |-> NoCrawl],
           light |-> [pc |-> "idle", pages |-> {}, cooldown |-> FALSE, job |-> 0],
           targeted |-> [pc |-> "idle", max_version |-> 0, runs |-> 0]]

FreeCrawl == CHOOSE c \in Crawls : pv.crawl[c].pc = "none" /\ \A d \in Crawls : d < c => pv.crawl[d].pc # "none"

HasFreeCrawl == \E c \in Crawls : pv.crawl[c].pc = "none"

\* POST /projects/{id}/recrawl, and check_single_project for a ready project:
\* a job, status pending, initial_crawl.delay
pv_recrawl_project ==
    /\ pv.status \notin {"pending", "crawling"}
    /\ HasFreeCrawl
    /\ pv' = [pv EXCEPT !.status = "pending", !.crawl[FreeCrawl].pc = "queued"]

\* initial_crawl: status crawling, job started, commit
pv_initial_crawl_start(c) ==
    /\ pv.crawl[c].pc = "queued"
    /\ pv' = [pv EXCEPT !.status = "crawling", !.crawl[c].pc = "running"]

\* after the crawl and the curation: new_version = max_version + 1 and the
\* Page objects added to the session
pv_initial_crawl_read_version(c) ==
    /\ pv.crawl[c].pc = "running"
    /\ LET max_version == IF MaxPageVersion(pv.rows) = None THEN 0 ELSE MaxPageVersion(pv.rows)
       IN  pv' = [pv EXCEPT !.crawl[c].pc = "added", !.crawl[c].new_version = max_version + 1]

NextRowIds(rows, urls) ==
    CHOOSE f \in [urls -> (Cardinality(rows) + 1)..(Cardinality(rows) + Cardinality(urls))] :
        \A u, v \in urls : u # v => f[u] # f[v]

\* the commit of the curated data, which flushes the page rows
pv_initial_crawl_commit(c) ==
    /\ pv.crawl[c].pc = "added"
    /\ LET ids == NextRowIds(pv.rows, CrawledUrls)
       IN  pv' = [pv EXCEPT !.crawl[c].pc = "committed",
                            !.rows = @ \cup {PageRow(ids[u], u, pv.crawl[c].new_version, c) : u \in CrawledUrls}]

\* status ready, the job completed, commit
pv_initial_crawl_complete(c) ==
    /\ pv.crawl[c].pc = "committed"
    /\ pv' = [pv EXCEPT !.status = "ready", !.crawl[c].pc = "completed"]

\* lightweight_batch_check up to its HEAD requests: the status test and the
\* page rows of the highest version
pv_lightweight_read_pages ==
    /\ pv.light.pc = "idle"
    /\ pv.status = "ready"
    /\ pv.rows # {}
    /\ pv' = [pv EXCEPT !.light.pc = "probing",
                        !.light.pages = {r.id : r \in {q \in pv.rows : q.version = MaxPageVersion(pv.rows)}}]

\* the fingerprints of the first check, or the ETags of a change that is not
\* significant, stored on the rows that were read
pv_lightweight_store_etags(etag) ==
    /\ pv.light.pc = "probing"
    /\ pv' = [pv EXCEPT !.light.pc = "idle", !.light.pages = {},
                        !.rows = {IF r.id \in pv.light.pages THEN [r EXCEPT !.etag = etag] ELSE r : r \in @}]

\* _trigger_lightweight_rescrape outside the cooldown: the job added and
\* flushed, status pending set on the session's project, and
\* initial_crawl.delay; nothing of it is committed yet
pv_trigger_lightweight_rescrape ==
    /\ pv.light.pc = "probing"
    /\ ~pv.light.cooldown
    /\ HasFreeCrawl
    /\ pv' = [pv EXCEPT !.light.pc = "triggered", !.light.pages = {},
                        !.light.job = FreeCrawl,
                        !.crawl[FreeCrawl].pc = "flushed"]

\* the caller's session.commit() after _trigger_lightweight_rescrape has
\* returned: the job row and the project's status become visible
pv_lightweight_commit_trigger ==
    /\ pv.light.pc = "triggered"
    /\ pv' = [pv EXCEPT !.light = [pc |-> "idle", pages |-> {}, cooldown |-> TRUE, job |-> 0],
                        !.status = "pending",
                        !.crawl[pv.light.job].pc = IF @ = "flushed" THEN "queued" ELSE @]

\* initial_crawl taken by a worker before that commit: the query for the job
\* finds no row and the task returns "Project or job not found"
pv_initial_crawl_not_found(c) ==
    /\ pv.crawl[c].pc = "flushed"
    /\ pv' = [pv EXCEPT !.crawl[c].pc = "not_found"]

\* POST /webhooks/change-detected for a ready project: targeted_recrawl.delay
pv_handle_change_detected ==
    /\ pv.status = "ready"
    /\ pv.targeted.pc = "idle"
    /\ pv.targeted.runs < MaxTargetedRuns
    /\ pv' = [pv EXCEPT !.targeted.pc = "queued", !.targeted.runs = @ + 1]

\* targeted_recrawl: max_version = max(Page.version) or 1
pv_targeted_read_version ==
    /\ pv.targeted.pc = "queued"
    /\ pv' = [pv EXCEPT !.targeted.pc = "read",
                        !.targeted.max_version =
                            IF MaxPageVersion(pv.rows) = None THEN 1 ELSE MaxPageVersion(pv.rows)]

\* the changed URLs crawled again: the row of the URL at max_version, if
\* there is one and the content differs, is overwritten; commit
pv_targeted_update_pages(changed_urls) ==
    /\ pv.targeted.pc = "read"
    /\ LET found(u) == {r \in pv.rows : r.url = u /\ r.version = pv.targeted.max_version}
       IN  \E first \in SUBSET UNION {found(u) : u \in changed_urls} :
              /\ \A u \in changed_urls :
                    Cardinality(first \cap found(u)) = IF found(u) = {} THEN 0 ELSE 1
              /\ pv' = [pv EXCEPT !.targeted.pc = "updated",
                                  !.rows = {IF r \in first THEN [r EXCEPT !.content_hash = "h2"]
                                            ELSE r : r \in @}]

\* the links that are not curated URLs crawled and saved at max_version; commit
pv_targeted_add_pages(discovered_new_urls) ==
    /\ pv.targeted.pc = "updated"
    /\ LET ids == NextRowIds(pv.rows, discovered_new_urls)
       IN  pv' = [pv EXCEPT !.targeted.pc = "idle",
                            !.rows = @ \cup {[PageRow(ids[u], u, pv.targeted.max_version, 0)
                                                EXCEPT !.content_hash = "h2"] :
                                             u \in discovered_new_urls}]

projVars == <<project, jobs, queue, enqueued, workers, curated, artifact, versions,
              pages, pageVersion, quiet, lastOp, lastRet>>

vars == <<now, schedVars, thr, flt, nrm, inv, sig, loop, sel, pv, projVars>>

\* Project tasks leave the scheduler's Redis keys and the clock alone.
ProjectStep(A) == A /\ UNCHANGED <<now, schedVars, thr, flt, nrm, inv, sig, loop, sel, pv>>

\* Scheduler calls leave the database and the broker alone.
SchedStep(A) == A /\ UNCHANGED <<projVars, thr, flt, nrm, inv, sig, loop, sel, pv>>

\* Concurrent dispatchers and schedulers on the timers and the cooldown set.
DispatchInit ==
    /\ now = 0
    /\ SchedInit
    /\ nrm = NrmIdle
    /\ inv = InvIdle
    /\ sig = SigIdle
    /\ loop = LoopIdle
    /\ sel = SelIdle
    /\ pv = PvIdle
    /\ thr = ThrIdle
    /\ flt = FltIdle
    /\ ProjectCreated

DispatchNext ==
    \/ \E p \in Projects, ih \in NoneOr({1}), at \in NoneOr({now}) :
         SchedStep(schedule_full_check(p, ih, at))
    \/ \E p \in Projects, im \in NoneOr({0}) : SchedStep(schedule_lightweight_check(p, im))
    \/ \E d \in Dispatchers, limit \in Limits : SchedStep(get_due_full_checks_range(d, limit))
    \/ \E d \in Dispatchers, limit \in Limits :
         SchedStep(get_due_lightweight_checks_range(d, limit))
    \/ \E d \in Dispatchers : SchedStep(GetDuePipeExecute(d))
    \/ \E p \in Projects : SchedStep(cancel_full_check(p))
    \/ \E p \in Projects : SchedStep(cancel_lightweight_check(p))
    \/ \E p \in Projects, h \in NoneOr({1}) : SchedStep(set_cooldown(p, h))
    \/ \E d \in Dispatchers, p \in Projects : SchedStep(is_in_cooldown(d, p))
    \/ \E d \in Dispatchers, p \in Projects : SchedStep(get_cooldown_remaining(d, p))
    \/ \E d \in Dispatchers : SchedStep(CooldownZRem(d))
    \/ \E p \in Projects : SchedStep(clear_cooldown(p))
    \/ \E p \in Projects : SchedStep(unschedule_project(p))
    \/ SchedStep(TickSched)

SpecDispatch == DispatchInit /\ [][DispatchNext]_vars

\* The timers alone: entries scheduled by any process, read when due and
\* removed by two dispatchers.
DueNext ==
    \/ \E p \in Projects, at \in NoneOr({now}) : SchedStep(schedule_full_check(p, None, at))
    \/ \E p \in Projects : SchedStep(schedule_lightweight_check(p, None))
    \/ \E d \in {1, 2}, limit \in Limits : SchedStep(get_due_full_checks_range(d, limit))
    \/ \E d \in {1, 2}, limit \in Limits :
         SchedStep(get_due_lightweight_checks_range(d, limit))
    \/ \E d \in {1, 2} : SchedStep(GetDuePipeExecute(d))
    \/ SchedStep(TickSched)

SpecDue == DispatchInit /\ [][DueNext]_vars

\* The bulk operations among the calls that read and write the same keys.
BulkNext ==
    \/ \E d \in Dispatchers, p \in Projects : SchedStep(schedule_project(d, p))
    \/ \E d \in Dispatchers : SchedStep(ScheduleProjectLightweight(d))
    \/ \E p \in Projects : SchedStep(unschedule_project(p))
    \/ \E p \in Projects, h \in NoneOr({1}) : SchedStep(set_cooldown(p, h))
    \/ \E p \in Projects, h \in {10} : SchedStep(SetCheckInterval(p, h))
    \/ \E d \in Dispatchers, limit \in Limits : SchedStep(get_due_lightweight_checks_range(d, limit))
    \/ \E d \in Dispatchers : SchedStep(GetDuePipeExecute(d))
    \/ SchedStep(TickSched)

SpecBulk == DispatchInit /\ [][BulkNext]_vars

\* The adaptive interval store.
\* The rows migrate_from_db is given: next_check_at, check_interval_hours and
\* next_lightweight_check_at of a projects row.  check_interval_hours holds the
\* column default or what _schedule_next_check wrote: MIN_CHECK_INTERVAL, or
\* twice the value before up to MAX_CHECK_INTERVAL; a key may be missing.
DbIntervals == {ProjectDefaultInterval, MIN_CHECK_INTERVAL, 2 * MIN_CHECK_INTERVAL, MAX_CHECK_INTERVAL}

DbRows ==
    [next_check_at : NoneOr({now}), check_interval_hours : NoneOr(DbIntervals),
     next_lightweight_check_at : NoneOr({now})]

\* migrate_from_db(projects): one pipeline of a ZADD per timestamp that is set
\* and an HSET of check_interval_hours as it is given, where it is set.
migrate_from_db(rows) ==
    LET ps == DOMAIN rows
        n == Cardinality({p \in ps : rows[p].next_check_at # None})
             + Cardinality({p \in ps : rows[p].next_lightweight_check_at # None})
        Score(k, p) == IF k = FULL_CHECK_KEY THEN rows[p].next_check_at
                       ELSE IF k = LIGHTWEIGHT_CHECK_KEY THEN rows[p].next_lightweight_check_at
                       ELSE None
        Added(k, p) == p \in ps /\ Score(k, p) # None
    IN  /\ zadds + n <= MaxZadds
        /\ zsets' = [k \in ZKeys |-> [p \in Projects |->
                        IF Added(k, p) THEN Score(k, p) ELSE zsets[k][p]]]
        /\ zgen' = [k \in ZKeys |-> [p \in Projects |->
                        IF Added(k, p) THEN zgen[k][p] + 1 ELSE zgen[k][p]]]
        /\ zadds' = zadds + n
        /\ intervals' = [p \in Projects |->
                            IF p \in ps /\ rows[p].check_interval_hours # None
                            THEN rows[p].check_interval_hours
                            ELSE intervals[p]]
        /\ lastCall' = [NoCall EXCEPT !.op = "migrate_from_db", !.ret = Cardinality(ps)]
        /\ UNCHANGED <<now, disp, handed, doubled>>

HourInputs == {1, 10, 200}

BackoffNext ==
    \/ \E p \in Projects, changed \in BOOLEAN : SchedStep(apply_backoff(p, changed))
    \/ \E p \in Projects, h \in HourInputs : SchedStep(SetCheckInterval(p, h))
    \/ \E p \in Projects : SchedStep(unschedule_project(p))

SpecBackoff == DispatchInit /\ [][BackoffNext]_vars

\* rows of projects that were never checked: both due times NULL
UnscheduledRows ==
    {r \in DbRows : r.next_check_at = None /\ r.next_lightweight_check_at = None}

\* The interval store under every operation that writes it; a migration brings
\* the rows of some of the projects.
IntervalNext ==
    \/ \E p \in Projects, changed \in BOOLEAN : SchedStep(apply_backoff(p, changed))
    \/ \E p \in Projects, h \in HourInputs : SchedStep(SetCheckInterval(p, h))
    \/ \E p \in Projects : SchedStep(unschedule_project(p))
    \/ \E ps \in SUBSET Projects, row \in UnscheduledRows :
         SchedStep(migrate_from_db([p \in ps |-> row]))

SpecInterval == DispatchInit /\ [][IntervalNext]_vars

\* The threshold function on every combination of counts.
ThresholdInit ==
    /\ now = 0
    /\ SchedInit
    /\ nrm = NrmIdle
    /\ inv = InvIdle
    /\ sig = SigIdle
    /\ loop = LoopIdle
    /\ sel = SelIdle
    /\ pv = PvIdle
    /\ flt = FltIdle
    /\ ProjectCreated
    /\ \E a \in ThresholdInputs : thr = [args |-> a, called |-> FALSE, result |-> NoResult]

ThresholdNext == CheckThreshold /\ UNCHANGED <<now, schedVars, flt, nrm, inv, sig, loop, sel, pv, projVars>>

SpecThreshold == ThresholdInit /\ [][ThresholdNext]_vars

\* The relevance filter on every page list and every classifier behaviour.
FilterInit ==
    /\ now = 0
    /\ SchedInit
    /\ nrm = NrmIdle
    /\ inv = InvIdle
    /\ sig = SigIdle
    /\ loop = LoopIdle
    /\ sel = SelIdle
    /\ pv = PvIdle
    /\ thr = ThrIdle
    /\ ProjectCreated
    /\ \E pages_in \in SeqsUpTo(FilterPage, MaxFilterPages), bs \in FilterBatchSizes :
         flt = [FltIdle EXCEPT !.pages = pages_in, !.batch_size = bs, !.pc = "start"]

FilterStep(A) == A /\ UNCHANGED <<now, schedVars, thr, nrm, inv, sig, loop, sel, pv, projVars>>

FilterNext ==
    \/ FilterStep(FilterStart)
    \/ \E ok \in BOOLEAN, urls \in SUBSET FilterUrls : FilterStep(FilterBatch(ok, urls))
    \/ \E order \in SeqsUpTo(FilterUrls, NumFilterUrls) : FilterStep(FilterFinish(order))

SpecFilter == FilterInit /\ [][FilterNext]_vars

\* The lightweight probe against every origin behaviour.
QuietPageCounts == {0, 4}

ProbeInit ==
    /\ now = 0
    /\ SchedInit
    /\ nrm = NrmIdle
    /\ inv = InvIdle
    /\ sig = SigIdle
    /\ loop = LoopIdle
    /\ sel = SelIdle
    /\ pv = PvIdle
    /\ thr = ThrIdle
    /\ flt = FltIdle
    /\ (ProjectCrawled(FALSE) \/ ProjectProbed(FALSE))
    /\ quiet \in QuietPageCounts

ProbeNext ==
    \/ ProjectStep(dispatch_lightweight_checks)
    \/ \E m \in queue, resp \in [Pages -> HeadResponses] :
         \E body \in FetchedBodies(resp) : \E significant \in Verdicts(body) :
            ProjectStep(lightweight_batch_check(m, resp, body, significant))
    \/ TaskTick /\ UNCHANGED <<schedVars, projVars, thr, flt, nrm, inv, sig, loop, sel, pv>>

SpecProbe == ProbeInit /\ [][ProbeNext]_vars

\* The crawled project after its first lightweight check against an origin
\* that sends none of the three headers: the semantic fingerprint of each page
\* was fetched and stored.
ProjectSampled ==
    /\ project = [NewProject EXCEPT
                    !.status = "ready",
                    !.next_lightweight_check_at = now + lightweight_check_interval_minutes]
    /\ jobs = <<[trigger_reason |-> "initial", status |-> "completed"]>>
    /\ queue = {}
    /\ enqueued = 0
    /\ workers = [w \in Workers |-> IdleWorker]
    /\ curated = [overview |-> TRUE, pages |-> 2, sections |-> 2, rev |-> 1]
    /\ artifact = [exists |-> TRUE, generated_at |-> 0, rev |-> 1]
    /\ versions = {[version |-> 1, generated_at |-> 0, rev |-> 1]}
    /\ pages = [p \in Pages |-> [FreshPage EXCEPT !.sample_hash = 1]]
    /\ pageVersion = 1
    /\ lastOp = "lightweight_batch_check"
    /\ lastRet = [NoRet EXCEPT !.result = "no_change", !.gets = {"fetch_samples"}]

\* The probe of a project that was never probed, or probed before against an
\* origin with headers or without.
SampleInit ==
    /\ now = 0
    /\ SchedInit
    /\ nrm = NrmIdle
    /\ inv = InvIdle
    /\ sig = SigIdle
    /\ loop = LoopIdle
    /\ sel = SelIdle
    /\ pv = PvIdle
    /\ thr = ThrIdle
    /\ flt = FltIdle
    /\ (ProjectCrawled(FALSE) \/ ProjectProbed(FALSE) \/ ProjectSampled)
    /\ quiet \in QuietPageCounts

SpecSample == SampleInit /\ [][ProbeNext]_vars

\* The crawled project after its first lightweight check against an origin
\* that sends ETag and Content-Length: both were stored; the next check is due.
ProjectMeasured ==
    /\ project = [NewProject EXCEPT !.status = "ready", !.next_lightweight_check_at = now]
    /\ jobs = <<[trigger_reason |-> "initial", status |-> "completed"]>>
    /\ queue = {}
    /\ enqueued = 0
    /\ workers = [w \in Workers |-> IdleWorker]
    /\ curated = [overview |-> TRUE, pages |-> 2, sections |-> 2, rev |-> 1]
    /\ artifact = [exists |-> TRUE, generated_at |-> 0, rev |-> 1]
    /\ versions = {[version |-> 1, generated_at |-> 0, rev |-> 1]}
    /\ pages = [p \in Pages |-> [FreshPage EXCEPT !.etag = 1, !.content_length = 1]]
    /\ pageVersion = 1
    /\ lastOp = "lightweight_batch_check"
    /\ lastRet = [NoRet EXCEPT !.result = "no_change"]

\* The origin of a page that drifts: the ETag, the length, or both change.
DriftHeadResponses ==
    {HeadError, Head304, HeadOk(1, None, 1), HeadOk(2, None, 1), HeadOk(1, None, 2),
     HeadOk(2, None, 2)}

DriftInit ==
    /\ now = 0
    /\ SchedInit
    /\ nrm = NrmIdle
    /\ inv = InvIdle
    /\ sig = SigIdle
    /\ loop = LoopIdle
    /\ sel = SelIdle
    /\ pv = PvIdle
    /\ thr = ThrIdle
    /\ flt = FltIdle
    /\ (ProjectCrawled(FALSE) \/ ProjectMeasured)
    /\ quiet \in QuietPageCounts

DriftNext ==
    \/ ProjectStep(dispatch_lightweight_checks)
    \/ \E m \in queue, resp \in [Pages -> DriftHeadResponses] :
         \E body \in FetchedBodies(resp) : \E significant \in Verdicts(body) :
            ProjectStep(lightweight_batch_check(m, resp, body, significant))
    \/ TaskTick /\ UNCHANGED <<schedVars, projVars, thr, flt, nrm, inv, sig, loop, sel, pv>>

SpecDrift == DriftInit /\ [][DriftNext]_vars

\* The rescrape trigger of the probe; the origin answers with an ETag or not
\* at all.
LightInit ==
    /\ SchedInit
    /\ nrm = NrmIdle
    /\ inv = InvIdle
    /\ sig = SigIdle
    /\ loop = LoopIdle
    /\ sel = SelIdle
    /\ pv = PvIdle
    /\ thr = ThrIdle
    /\ flt = FltIdle
    /\ \/ now = 0 /\ \E retriggered \in BOOLEAN : ProjectCrawled(retriggered)
       \/ now = 0 /\ ProjectProbed(FALSE)
       \/ now = MinutesPerHour /\ ProjectProbed(TRUE)
    /\ quiet \in QuietPageCounts

TheProject == 1

CrawlHeadResponses == {HeadError, HeadOk(1, None, None), HeadOk(2, None, None)}

LightNext ==
    \/ ProjectStep(dispatch_lightweight_checks)
    \/ \E m \in queue, resp \in [Pages -> CrawlHeadResponses] :
         \E body \in FetchedBodies(resp) : \E significant \in Verdicts(body) :
            ProjectStep(lightweight_batch_check(m, resp, body, significant))
    \/ ProjectTick /\ UNCHANGED <<schedVars, projVars, thr, flt, nrm, inv, sig, loop, sel, pv>>

SpecLight == LightInit /\ [][LightNext]_vars

\* The probe of a project whose origin answers a HEAD with an ETag or fails.
OutageNext ==
    \/ ProjectStep(dispatch_lightweight_checks)
    \/ \E m \in queue, resp \in [Pages -> CrawlHeadResponses] :
         \E body \in FetchedBodies(resp) : \E significant \in Verdicts(body) :
            ProjectStep(lightweight_batch_check(m, resp, body, significant))
    \/ TaskTick /\ UNCHANGED <<schedVars, projVars, thr, flt, nrm, inv, sig, loop, sel, pv>>

OutageInit ==
    /\ now = 0
    /\ SchedInit
    /\ nrm = NrmIdle
    /\ inv = InvIdle
    /\ sig = SigIdle
    /\ loop = LoopIdle
    /\ sel = SelIdle
    /\ pv = PvIdle
    /\ thr = ThrIdle
    /\ flt = FltIdle
    /\ (ProjectCrawled(FALSE) \/ ProjectProbed(FALSE) \/ ProjectSampled \/ ProjectMeasured)
    /\ quiet \in QuietPageCounts

SpecOutage == OutageInit /\ [][OutageNext]_vars

\* The same, with calls of set_cooldown of the scheduler for the project.
CooldownNext ==
    \/ LightNext
    \/ \E h \in NoneOr({1}) : SchedStep(set_cooldown(TheProject, h))

SpecCooldown == LightInit /\ [][CooldownNext]_vars

\* The crawl tasks under every interleaving of their triggers.
CrawlInit ==
    /\ now = 0
    /\ SchedInit
    /\ nrm = NrmIdle
    /\ inv = InvIdle
    /\ sig = SigIdle
    /\ loop = LoopIdle
    /\ sel = SelIdle
    /\ pv = PvIdle
    /\ thr = ThrIdle
    /\ flt = FltIdle
    /\ \/ ProjectCreated
       \/ ProjectCrawled(FALSE) /\ quiet = 0
       \/ ProjectProbed(FALSE) /\ quiet = 0

CrawlNext ==
    \/ ProjectStep(recrawl_project)
    \/ ProjectStep(handle_change_detected)
    \/ ProjectStep(check_projects_for_changes)
    \/ \E m \in queue : ProjectStep(check_single_project(m))
    \/ ProjectStep(dispatch_lightweight_checks)
    \/ \E m \in queue, resp \in [Pages -> CrawlHeadResponses] :
         ProjectStep(lightweight_batch_check(m, resp, [p \in Pages |-> None], FALSE))
    \/ \E w \in Workers, m \in queue : ProjectStep(initial_crawl_start(w, m))
    \/ \E w \in Workers, removed \in 0..2, significant \in 0..2, new_relevant \in 0..1,
          new_sections \in 0..1, size \in CurationSizes :
         ProjectStep(initial_crawl_curate(w, removed, significant, new_relevant,
                                          new_sections, size))
    \/ \E w \in Workers : ProjectStep(initial_crawl_finish(w))
    \/ \E w \in Workers : ProjectStep(initial_crawl_fail(w))
    \/ \E w \in Workers : ProjectStep(initial_crawl_timeout(w))
    \/ \E w \in Workers : ProjectStep(initial_crawl_timeout_swallowed(w))
    \/ \E w \in Workers, m \in queue : ProjectStep(targeted_recrawl_start(w, m))
    \/ \E w \in Workers, changed \in BOOLEAN : ProjectStep(targeted_recrawl_update(w, changed))
    \/ \E w \in Workers : ProjectStep(targeted_recrawl_finish(w))
    \/ \E w \in Workers : ProjectStep(targeted_recrawl_fail(w))
    \/ TaskTick /\ UNCHANGED <<schedVars, projVars, thr, flt, nrm, inv, sig, loop, sel, pv>>

SpecCrawl == CrawlInit /\ [][CrawlNext]_vars

\* The requests for a crawl and the tasks that start one, with the answer of
\* recrawl_project to a request it refuses.
RefuseNext ==
    \/ ProjectStep(recrawl_project)
    \/ ProjectStep(recrawl_project_conflict)
    \/ ProjectStep(check_projects_for_changes)
    \/ \E m \in queue : ProjectStep(check_single_project(m))
    \/ ProjectStep(dispatch_lightweight_checks)
    \/ \E m \in queue, resp \in [Pages -> CrawlHeadResponses] :
         ProjectStep(lightweight_batch_check(m, resp, [p \in Pages |-> None], FALSE))
    \/ \E w \in Workers, m \in queue : ProjectStep(initial_crawl_start(w, m))
    \/ \E w \in Workers, size \in CurationSizes :
         ProjectStep(initial_crawl_curate(w, 0, 0, 0, 0, size))
    \/ \E w \in Workers : ProjectStep(initial_crawl_finish(w))
    \/ \E w \in Workers : ProjectStep(initial_crawl_timeout(w))
    \/ TaskTick /\ UNCHANGED <<schedVars, projVars, thr, flt, nrm, inv, sig, loop, sel, pv>>

SpecRefuse == CrawlInit /\ [][RefuseNext]_vars

\* The new project after max_retries failed attempts of its initial crawl:
\* the first attempt left the status crawling, the handler of the last one
\* the job failed, and the message of the last retry is on the broker.
ProjectRetried ==
    /\ project = [NewProject EXCEPT !.status = "crawling"]
    /\ jobs = <<[trigger_reason |-> "initial", status |-> "failed"]>>
    /\ queue = {[id |-> 1, task |-> "initial_crawl", job |-> 1, retries |-> max_retries]}
    /\ enqueued = 1
    /\ workers = [w \in Workers |-> IdleWorker]
    /\ curated = NoCurated
    /\ artifact = NoArtifact
    /\ versions = {}
    /\ pages = [p \in Pages |-> FreshPage]
    /\ pageVersion = 0
    /\ quiet = 0
    /\ lastOp = "initial_crawl_fail"
    /\ lastRet = NoRet

\* A crawled and probed project (ready, an ETag stored for every page) whose
\* recrawl was requested by its owner or by the hourly check: the request set
\* the status pending and sent the task.  max_retries attempts have failed during the crawl, before any
\* page row was written: the first left the status crawling, the handler of
\* the last one the job failed, and the message of the last retry is on the
\* broker.
ProjectRescrapeRetried(reason) ==
    /\ project = [NewProject EXCEPT !.status = "crawling"]
    /\ jobs = <<[trigger_reason |-> "initial", status |-> "completed"],
                [trigger_reason |-> reason, status |-> "failed"]>>
    /\ queue = {[id |-> 1, task |-> "initial_crawl", job |-> 2, retries |-> max_retries]}
    /\ enqueued = 1
    /\ workers = [w \in Workers |-> IdleWorker]
    /\ curated = [overview |-> TRUE, pages |-> 2, sections |-> 2, rev |-> 1]
    /\ artifact = [exists |-> TRUE, generated_at |-> 0, rev |-> 1]
    /\ versions = {[version |-> 1, generated_at |-> 0, rev |-> 1]}
    /\ pages = [p \in Pages |-> [FreshPage EXCEPT !.etag = 1]]
    /\ pageVersion = 1
    /\ lastOp = "initial_crawl_fail"
    /\ lastRet = NoRet

ExhaustInit ==
    /\ now = 0
    /\ SchedInit
    /\ nrm = NrmIdle
    /\ inv = InvIdle
    /\ sig = SigIdle
    /\ loop = LoopIdle
    /\ sel = SelIdle
    /\ pv = PvIdle
    /\ thr = ThrIdle
    /\ flt = FltIdle
    /\ \E reason \in {"manual", "scheduled_check"} : ProjectRescrapeRetried(reason)
    /\ quiet \in QuietPageCounts

\* The last attempt of the task.
ExhaustNext ==
    \/ \E w \in Workers, m \in queue : ProjectStep(initial_crawl_start(w, m))
    \/ \E w \in Workers, removed \in 0..2, significant \in 0..2, new_relevant \in 0..1,
          new_sections \in 0..1, size \in CurationSizes :
         ProjectStep(initial_crawl_curate(w, removed, significant, new_relevant,
                                          new_sections, size))
    \/ \E w \in Workers : ProjectStep(initial_crawl_finish(w))
    \/ \E w \in Workers : ProjectStep(initial_crawl_fail(w))
    \/ \E w \in Workers : ProjectStep(initial_crawl_timeout(w))
    \/ TaskTick /\ UNCHANGED <<schedVars, projVars, thr, flt, nrm, inv, sig, loop, sel, pv>>

SpecExhaust == ExhaustInit /\ [][ExhaustNext]_vars

TerminateInit ==
    /\ now = 0
    /\ SchedInit
    /\ nrm = NrmIdle
    /\ inv = InvIdle
    /\ sig = SigIdle
    /\ loop = LoopIdle
    /\ sel = SelIdle
    /\ pv = PvIdle
    /\ thr = ThrIdle
    /\ flt = FltIdle
    /\ (ProjectCreated \/ ProjectRetried \/ (ProjectCrawled(FALSE) /\ quiet = 0))

\* a free worker process takes a message of the broker
TakesTask(w) ==
    \/ \E m \in queue : ProjectStep(initial_crawl_start(w, m))
    \/ \E m \in queue : ProjectStep(targeted_recrawl_start(w, m))

\* the task of worker w goes on or ends: by success, by an exception or by
\* the soft time limit
RunsTask(w) ==
    \/ \E removed \in 0..2, significant \in 0..2, new_relevant \in 0..1,
          new_sections \in 0..1, size \in CurationSizes :
         ProjectStep(initial_crawl_curate(w, removed, significant, new_relevant,
                                          new_sections, size))
    \/ ProjectStep(initial_crawl_finish(w))
    \/ ProjectStep(initial_crawl_fail(w))
    \/ ProjectStep(initial_crawl_timeout(w))
    \/ \E changed \in BOOLEAN : ProjectStep(targeted_recrawl_update(w, changed))
    \/ ProjectStep(targeted_recrawl_finish(w))
    \/ ProjectStep(targeted_recrawl_fail(w))

\* the short tasks, which no worker state is kept for
RunsShortTask ==
    \/ \E m \in queue : ProjectStep(check_single_project(m))
    \/ \E m \in queue, resp \in [Pages -> CrawlHeadResponses] :
         ProjectStep(lightweight_batch_check(m, resp, [p \in Pages |-> None], FALSE))

\* The crawl tasks with workers that take every message and tasks that all
\* terminate; requests, webhooks and the clock are under no obligation.
SpecTerminate ==
    /\ TerminateInit
    /\ [][CrawlNext]_vars
    /\ \A w \in Workers : WF_vars(TakesTask(w)) /\ WF_vars(RunsTask(w))
    /\ WF_vars(RunsShortTask)

\* The same under a beat that keeps ticking: celery beat sends
\* check_projects_for_changes every hour, so the dispatch happens whenever it
\* stays possible.  Requests of users and webhooks are under no such obligation.
SpecCrawlBeat == SpecCrawl /\ WF_vars(ProjectStep(check_projects_for_changes))

\* The selective path of a rescrape on every stored layout and every analysis.
SelectiveInit ==
    /\ now = 0
    /\ SchedInit
    /\ thr = ThrIdle
    /\ flt = FltIdle
    /\ nrm = NrmIdle
    /\ inv = InvIdle
    /\ sig = SigIdle
    /\ loop = LoopIdle
    /\ pv = PvIdle
    /\ ProjectCreated
    /\ \E layout \in CuratedLayouts :
         LET content == Assembled(layout.sections, layout.rows)
         IN  sel = [SelIdle EXCEPT !.pc = "start", !.sections = layout.sections,
                                   !.rows = layout.rows, !.file = content,
                                   !.versions = {[version |-> 1, content |-> content]}]

\* The pages that the site may have dropped, that the scrape may have missed
\* and that may have changed.
RemovableKeys == {normalize_url(UrlA), normalize_url(UrlB)}
UnscrapedKeys == {normalize_url(UrlB)}
ChangeableKeys == {normalize_url(UrlA), normalize_url(UrlBA)}

SelectiveStep(A) == A /\ UNCHANGED <<now, schedVars, thr, flt, nrm, inv, sig, loop, pv, projVars>>

SelectiveNext ==
    \/ \E removed_url_keys \in SUBSET RemovableKeys, curated_urls \in CuratedUrlMaps(sel.rows) :
         \E unscraped \in SUBSET UnscrapedKeys, significant \in SUBSET (ChangeableKeys \cap DOMAIN curated_urls) :
           \E new_relevant_pages \in SubsetsUpTo(NewRelevantPages, 1), new_sections_needed \in SUBSET NewSections :
              SelectiveStep(rescrape_analyse(removed_url_keys, curated_urls,
                                             (DOMAIN curated_urls \ removed_url_keys) \ unscraped,
                                             significant, new_relevant_pages, new_sections_needed))
    \/ \E prose \in SectionProse, page_prose \in SectionProse :
         SelectiveStep(selective_regenerate([n \in RegeneratedNames(sel.rows, sel.plan) |-> prose],
                                            [n \in RegeneratedNames(sel.rows, sel.plan) |-> page_prose]))

SpecSelective == SelectiveInit /\ [][SelectiveNext]_vars

\* The page rows under every interleaving of the tasks that touch them.
PagesInit ==
    /\ now = 0
    /\ SchedInit
    /\ thr = ThrIdle
    /\ flt = FltIdle
    /\ nrm = NrmIdle
    /\ inv = InvIdle
    /\ sig = SigIdle
    /\ loop = LoopIdle
    /\ sel = SelIdle
    /\ ProjectCreated
    /\ pv = PvInit

PagesStep(A) == A /\ UNCHANGED <<now, schedVars, thr, flt, nrm, inv, sig, loop, sel, projVars>>

Etags == {1, 2}

PagesNext ==
    \/ PagesStep(pv_recrawl_project)
    \/ \E c \in Crawls : PagesStep(pv_initial_crawl_start(c))
    \/ \E c \in Crawls : PagesStep(pv_initial_crawl_read_version(c))
    \/ \E c \in Crawls : PagesStep(pv_initial_crawl_commit(c))
    \/ \E c \in Crawls : PagesStep(pv_initial_crawl_complete(c))
    \/ PagesStep(pv_lightweight_read_pages)
    \/ \E etag \in Etags : PagesStep(pv_lightweight_store_etags(etag))
    \/ PagesStep(pv_trigger_lightweight_rescrape)
    \/ PagesStep(pv_lightweight_commit_trigger)
    \/ \E c \in Crawls : PagesStep(pv_initial_crawl_not_found(c))
    \/ PagesStep(pv_handle_change_detected)
    \/ PagesStep(pv_targeted_read_version)
    \/ \E changed_urls \in SUBSET CuratedUrls : PagesStep(pv_targeted_update_pages(changed_urls))
    \/ \E discovered_new_urls \in SUBSET (CrawledUrls \ CuratedUrls) :
         PagesStep(pv_targeted_add_pages(discovered_new_urls))

SpecPages == PagesInit /\ [][PagesNext]_vars

\* _normalize_url on every URL of up to MaxUrlLen characters.
NormalizeInit ==
    /\ now = 0
    /\ SchedInit
    /\ thr = ThrIdle
    /\ flt = FltIdle
    /\ sel = SelIdle
    /\ pv = PvIdle
    /\ ProjectCreated
    /\ \E url \in SeqsUpTo(UrlChars, MaxUrlLen) : nrm = [NrmIdle EXCEPT !.pc = "input", !.url = url]
    /\ inv = InvIdle
    /\ sig = SigIdle
    /\ loop = LoopIdle

NormalizeStep(A) == A /\ UNCHANGED <<now, schedVars, thr, flt, inv, sig, loop, sel, pv, projVars>>

NormalizeNext ==
    \/ NormalizeStep(NormalizeOnce)
    \/ NormalizeStep(NormalizeTwice)

SpecNormalize == NormalizeInit /\ [][NormalizeNext]_vars

\* ------------------------------------------------- the URL inventory
InventoryInit ==
    /\ now = 0
    /\ SchedInit
    /\ thr = ThrIdle
    /\ flt = FltIdle
    /\ sel = SelIdle
    /\ pv = PvIdle
    /\ ProjectCreated
    /\ nrm = NrmIdle
    /\ inv = InvIdle
    /\ sig = SigIdle
    /\ loop = LoopIdle

InventoryNext ==
    /\ \E urls \in SeqsUpTo(MappedUrls, MaxMappedUrls) : store_url_inventory(urls)
    /\ UNCHANGED <<now, schedVars, thr, flt, nrm, sig, loop, sel, pv, projVars>>

SpecInventory == InventoryInit /\ [][InventoryNext]_vars

\* ------------------------------------------------- batch significance
\* the fetched pages of a run and len(pages) of the project
SignificanceInit ==
    /\ now = 0
    /\ SchedInit
    /\ thr = ThrIdle
    /\ flt = FltIdle
    /\ sel = SelIdle
    /\ pv = PvIdle
    /\ ProjectCreated
    /\ nrm = NrmIdle
    /\ inv = InvIdle
    /\ \E scores \in SeqsUpTo(PageScores, MaxChangedPages) :
         \E total_pages \in 1..MaxTotalPages :
            /\ Len(scores) <= total_pages
            /\ sig = [SigIdle EXCEPT !.pc = "input", !.scores = scores, !.total_pages = total_pages]
    /\ loop = LoopIdle

SignificanceNext == AnalyzeBatch /\ UNCHANGED <<now, schedVars, thr, flt, nrm, inv, loop, sel, pv, projVars>>

SpecSignificance == SignificanceInit /\ [][SignificanceNext]_vars

\* ------------------------------------------------- the dispatch loops
LoopRows ==
    [status : {"ready", "crawling"}, check_interval_hours : {MIN_CHECK_INTERVAL, 2 * MIN_CHECK_INTERVAL},
     next_check_at : {None, MIN_CHECK_INTERVAL * MinutesPerHour},
     next_lightweight_check_at : {None, lightweight_check_interval_minutes}]

LoopInit ==
    /\ now = 0
    /\ SchedInit
    /\ thr = ThrIdle
    /\ flt = FltIdle
    /\ sel = SelIdle
    /\ pv = PvIdle
    /\ ProjectCreated
    /\ nrm = NrmIdle
    /\ inv = InvIdle
    /\ sig = SigIdle
    /\ \E rows \in [LoopProjects -> LoopRows] :
         loop = [LoopIdle EXCEPT !.rows = rows,
                                 !.sent = [k \in CheckTasks \X LoopProjects |-> 0],
                                 !.dispatched_at = [k \in CheckTasks \X LoopProjects |-> None]]

LoopNext ==
    \/ CheckProjectsForChangesRun /\ UNCHANGED <<schedVars, thr, flt, nrm, inv, sig, sel, pv, projVars>>
    \/ DispatchLightweightChecksRun /\ UNCHANGED <<schedVars, thr, flt, nrm, inv, sig, sel, pv, projVars>>
    \/ LoopTick /\ UNCHANGED <<schedVars, thr, flt, nrm, inv, sig, sel, pv, projVars>>

SpecLoop == LoopInit /\ [][LoopNext]_vars

\* ------------------------------------------------- the assembly
\* the stored sections: any of the names, with a page and the homepage in one
\* of them or no page at all
AssembleInit ==
    /\ now = 0
    /\ SchedInit
    /\ thr = ThrIdle
    /\ flt = FltIdle
    /\ pv = PvIdle
    /\ ProjectCreated
    /\ nrm = NrmIdle
    /\ inv = InvIdle
    /\ sig = SigIdle
    /\ loop = LoopIdle
    /\ \E names \in SUBSET SectionNames : \E linked \in SUBSET names :
         /\ Cardinality(linked) <= 1
         /\ sel = [SelIdle EXCEPT
                     !.pc = "stored",
                     !.sections = {[name |-> n, description |-> "stored"] : n \in names},
                     !.rows = UNION {{StoredPage(UrlA, n), StoredPage(UrlHome, n)} : n \in linked}]

AssembleNext == AssembleStored /\ UNCHANGED <<now, schedVars, thr, flt, nrm, inv, sig, loop, pv, projVars>>

SpecAssemble == AssembleInit /\ [][AssembleNext]_vars

\* =========================================================================
\* Claims
\* =========================================================================

\* C1: a due entry of a timer is handed to at most one caller of get_due_*,
\* whatever the interleaving of the dispatchers' Redis commands.
C1_NoDoubleDispatch == doubled = {}

\* C4: every stored interval lies in [MIN_HOURS, MAX_HOURS]; apply_backoff
\* with changed = true sets and returns MIN_HOURS, with changed = false it sets
\* and returns min(2 * current, MAX_HOURS), current being the stored interval
\* or the default of 24 hours when none is stored.
C4_BackoffBounds ==
    /\ \A p \in Projects :
         intervals[p] # None =>
           (intervals[p] >= MIN_CHECK_INTERVAL_HOURS /\ intervals[p] <= MAX_CHECK_INTERVAL_HOURS)
    /\ lastCall.op = "apply_backoff" =>
         LET cur == IF lastCall.before = None THEN 24 ELSE lastCall.before
             want == IF lastCall.changed THEN 6
                     ELSE IF 2 * cur <= 168 THEN 2 * cur ELSE 168
         IN  /\ lastCall.ret = want
             /\ intervals[lastCall.p] = want

\* C4 witness: a doubling that hits the cap (96 h doubles to 192 h, stored 168 h).
C4_Witness ==
    /\ lastCall.op = "apply_backoff"
    /\ ~lastCall.changed
    /\ lastCall.before = 96
    /\ intervals[lastCall.p] = 168

\* C6: with curated_count > 0 the threshold function answers "full
\* regeneration" exactly when removed / curated > 50%, or significant / curated
\* > 50%, or new_relevant / curated > 30%, or new_sections >= existing_sections
\* with both positive; a ratio of exactly 50% (30%) does not fire.
C6_ThresholdIff ==
    (thr.called /\ thr.args.curated > 0) =>
        LET a == thr.args
        IN  thr.result.full <=>
              \/ 2 * a.removed > a.curated
              \/ 2 * a.significant > a.curated
              \/ 10 * a.new_relevant > 3 * a.curated
              \/ (a.new_sections >= a.existing_sections
                  /\ a.new_sections > 0 /\ a.existing_sections > 0)

\* C6 witness: every ratio exactly on its threshold (5/10, 5/10, 3/10) and one
\* new section against two existing ones: the answer is "selective".
C6_Witness ==
    /\ thr.called
    /\ thr.args = [curated |-> 10, removed |-> 5, significant |-> 5, new_relevant |-> 3,
                   existing_sections |-> 2, new_sections |-> 1]
    /\ ~thr.result.full

\* C8: when the input of filter_relevant_pages has a page marked as homepage,
\* the output starts with the (first) page so marked, whatever the classifier
\* answered for any batch and whether or not a batch failed.
C8_HomepageKept ==
    (flt.pc = "done" /\ \E i \in 1..Len(flt.pages) : flt.pages[i].is_homepage) =>
        /\ Len(flt.out) >= 1
        /\ flt.out[1] = FirstHomepage(flt.pages)[1]
        /\ flt.out[1].is_homepage

\* C8 witness: two batches were classified, one of them failed, and the homepage
\* (not the first page of the input) is in the output.
C8_Witness ==
    /\ flt.pc = "done"
    /\ flt.batch_num = 2
    /\ flt.failed
    /\ Len(flt.pages) = 3
    /\ ~flt.pages[1].is_homepage
    /\ Len(flt.out) >= 1
    /\ flt.out[1].is_homepage

\* A step of lightweight_batch_check: it acknowledges its message.
LightStep ==
    /\ lastOp' = "lightweight_batch_check"
    /\ \E m \in queue \ queue' : m.task = "lightweight_batch_check"

\* set_cooldown(P, h) was called at some t with now in [t, t + h)
RedisCooldownSet ==
    /\ zsets[COOLDOWN_KEY][TheProject] # None
    /\ now < zsets[COOLDOWN_KEY][TheProject]

InitialCrawlsOf(q) == {m \in q : m.task = "initial_crawl"}

\* C2: while a cooldown of the project is set (by set_cooldown, or by the
\* timestamp of the last triggered rescrape), a call of trigger_rescrape
\* returns triggered = false with reason cooldown, inserts no job, enqueues no
\* full rescrape and leaves the status unchanged.
C2_CooldownHonoured ==
    [][(LightStep /\ lastRet'.trigger # "none" /\ (RedisCooldownSet \/ InCooldown(project)))
        => /\ lastRet'.trigger = "cooldown"
           /\ jobs' = jobs
           /\ InitialCrawlsOf(queue') = InitialCrawlsOf(queue)
           /\ project'.status = project.status]_vars

\* C3: at most one crawl-like task (initial_crawl or targeted_recrawl) is
\* executing for the project at any time.
C3_SingleWriter ==
    Cardinality({w \in Workers : workers[w].pc # "idle"}) <= 1

\* C5: the file versions of the project are exactly 1..k, without gap or
\* duplicate, and a higher version is never generated earlier than a lower one.
C5_VersionsContiguous ==
    /\ {r.version : r \in versions} = 1..Cardinality(versions)
    /\ \A r1, r2 \in versions :
         r1.version < r2.version => r1.generated_at <= r2.generated_at

\* C5 witness: two versions are written and a second writer, which read the
\* highest version before the first one committed, is about to commit.
C5_Witness ==
    /\ Cardinality(versions) >= 2
    /\ \E w \in Workers :
         /\ workers[w].pc = "assembled"
         /\ workers[w].plan.write
         /\ VersionTaken(NextFileVersion(workers[w].max_read))

\* the origin's headers being identical to the stored fingerprints, a
\* lightweight batch check leaves fingerprints, jobs and status as they are
FingerprintsKept ==
    /\ pages' = pages
    /\ jobs' = jobs
    /\ project'.status = project.status

HasHeaderFingerprint(page) ==
    \/ page.etag # None
    \/ page.last_modified_header # None
    \/ page.content_length # None

\* C7 as stated: a lightweight batch check whose origin returns, for every
\* page, header values identical to the stored ones leaves every fingerprint
\* unchanged, creates no job and keeps the status.
C7_IdenticalHeadersNoChange ==
    [][(LightStep /\ project.status = "ready" /\ lastRet'.identical) => FingerprintsKept]_vars

\* C7 amended: the same, for a project every page of which has a stored header
\* fingerprint (etag, last_modified_header or content_length).
C7_IdenticalStoredHeadersNoChange ==
    [][(/\ LightStep
        /\ project.status = "ready"
        /\ lastRet'.identical
        /\ \A p \in Pages : HasHeaderFingerprint(pages[p]))
        => FingerprintsKept]_vars

\* C7 witness: a check of a ready project with stored header fingerprints and
\* identical headers from the origin has run and reported no change.
C7_Witness ==
    /\ lastOp = "lightweight_batch_check"
    /\ lastRet.identical
    /\ lastRet.result = "no_change"
    /\ project.status = "ready"
    /\ \A p \in Pages : HasHeaderFingerprint(pages[p])

\* C9: trigger_rescrape called outside the cooldown inserts exactly one job
\* "lightweight_change_detected", sets the status to pending, stamps
\* last_lightweight_rescrape_at = now (the project is in cooldown from then on),
\* sets the next full check to now + the current interval, enqueues exactly one
\* initial_crawl for the new job and returns triggered = true.
C9_TriggerEffects ==
    [][(LightStep /\ lastRet'.trigger # "none" /\ ~InCooldown(project))
        => /\ lastRet'.trigger = "triggered"
           /\ jobs' = Append(jobs, NewJob("lightweight_change_detected"))
           /\ project'.status = "pending"
           /\ project'.last_lightweight_rescrape_at = now
           /\ InCooldown(project')
           /\ project'.next_check_at = now + Hours(project.check_interval_hours)
           /\ \E m \in queue' :
                /\ InitialCrawlsOf(queue') \ InitialCrawlsOf(queue) = {m}
                /\ m.job = Len(jobs')]_vars

\* C9 witness: a rescrape was triggered by a project that had triggered before
\* and whose cooldown had expired.
C9_Witness ==
    /\ lastOp = "lightweight_batch_check"
    /\ lastRet.trigger = "triggered"
    /\ project.status = "pending"
    /\ project.last_lightweight_rescrape_at = now
    /\ now > 0
    /\ Len(jobs) = 3

\* C10: a rescrape whose analysis fires no threshold rule and finds
\* removed_from_site, significant_changes and new_relevant all empty writes no
\* file version and leaves the artifact and the curated data as they are.
C10_NoChangeNoVersion ==
    [][\A w \in Workers :
         (/\ lastOp' = "initial_crawl_finish"
          /\ workers[w].pc = "assembled"
          /\ workers'[w].pc = "idle"
          /\ workers[w].task = "initial_crawl"
          /\ jobs[workers[w].job].trigger_reason \in RescrapeReasons
          /\ workers[w].plan.kind \in {"selective", "noop"}
          /\ ~workers[w].plan.rule
          /\ ~workers[w].plan.any_changes)
         => /\ versions' = versions
            /\ artifact' = artifact
            /\ curated' = curated]_vars

\* ------------------------------------------------------------------ C11
\* A section is affected if it contains a removed URL or a significantly
\* changed URL, or is the category of a new relevant page.
HoldsKeyIn(rows, name, keys) == \E r \in rows : r.category = name /\ normalize_url(r.url) \in keys

AffectedSection(name) ==
    \/ HoldsKeyIn(sel.before.rows, name, sel.plan.removed_from_site)
    \/ HoldsKeyIn(sel.before.rows, name, sel.plan.pages_with_changes)
    \/ \E p \in sel.plan.new_relevant_pages : p.category = name

SectionOf(file, name) == {file[i] : i \in {j \in 1..Len(file) : file[j].name = name}}

PagesOf(rows, name) == {r \in rows : r.category = name}

\* C11: after the selective save, regenerate_section was called for affected
\* sections only; every section that existed before and is not affected has
\* the same section row and the same page rows as before and its text in the
\* new artifact equals its text in the previous one; and the only version row
\* added holds the new artifact at the previous highest version + 1.
C11_SelectiveFrame ==
    sel.pc = "saved" =>
        /\ \A n \in sel.plan.regenerated_sections : AffectedSection(n)
        /\ \A s \in sel.before.sections :
              ~AffectedSection(s.name) =>
                  /\ s \in sel.sections
                  /\ PagesOf(sel.rows, s.name) = PagesOf(sel.before.rows, s.name)
                  /\ SectionOf(sel.file, s.name) = SectionOf(sel.before.file, s.name)
                  /\ Cardinality(SectionOf(sel.file, s.name)) = 1
        /\ sel.versions = sel.before.versions
                          \cup {[version |-> MaxVersionOf(sel.before.versions) + 1,
                                 content |-> sel.file]}
        /\ Cardinality(sel.versions) = Cardinality(sel.before.versions) + 1

\* a selective save that deleted a removed page and rewrote the prose of its
\* section while another section, with links, was not affected
C11_Witness ==
    /\ sel.pc = "saved"
    /\ sel.plan.removed_from_site # {}
    /\ sel.rows # sel.before.rows
    /\ \E s \in sel.sections : s.description = "regenerated"
    /\ \E s \in sel.before.sections :
         /\ ~AffectedSection(s.name)
         /\ \E b \in SectionOf(sel.file, s.name) : Len(b.links) > 0

\* ------------------------------------------------------------------ C12
\* worker w completes the job of a rescrape that a scheduled check or a
\* lightweight check triggered
CompletesCheck(w) ==
    /\ workers[w].pc = "assembled"
    /\ workers[w].task = "initial_crawl"
    /\ lastOp' = "initial_crawl_finish"
    /\ workers'[w] = IdleWorker
    /\ jobs[workers[w].job].trigger_reason \in {"scheduled_check", "lightweight_change_detected"}
    /\ jobs'[workers[w].job].status = "completed"

CommittedCrawls == {c \in Crawls : pv.crawl[c].pc \in {"committed", "completed"}}

\* C13: every full rescrape that has committed its page rows wrote exactly
\* one row for every crawled page, at its version and with etag cleared (a
\* later probe may set the etag), and the versions of two such tasks differ.
C13_PageVersionsIncrease ==
    /\ \A c \in CommittedCrawls : \A u \in CrawledUrls :
          Cardinality({r \in pv.rows : r.by = c /\ r.url = u
                                        /\ r.version = pv.crawl[c].new_version}) = 1
    /\ \A c, d \in CommittedCrawls : c # d => pv.crawl[c].new_version # pv.crawl[d].new_version

\* ------------------------------------------------------------------ C14
\* C14: a step neither changes, removes nor adds a page row of a version
\* below the highest version stored before the step, and after every step no
\* two page rows have the same url and version.
C14_OldVersionsFrozen ==
    [][/\ \A r \in pv.rows : r.version < MaxPageVersion(pv.rows) => r \in pv'.rows
       /\ \A r \in pv'.rows \ pv.rows : r.version >= MaxPageVersion(pv.rows)
       /\ \A r, q \in pv'.rows : (r.url = q.url /\ r.version = q.version) => r = q]_vars

\* ------------------------------------------------------------------ C15
\* C15: a crawl job that is completed or failed is never changed again, by
\* any step, the retry of its own task included.
C15_JobImmutable ==
    [][\A j \in 1..Len(jobs) :
         jobs[j].status \in {"completed", "failed"} => jobs'[j] = jobs[j]]_vars

\* ------------------------------------------------------------------ C16
\* the soft time limit of the initial_crawl task of worker w expires
ExceedsSoftLimit(w) ==
    /\ workers[w].pc \in {"crawl", "assembled"}
    /\ workers[w].task = "initial_crawl"
    /\ now' = now
    /\ \/ lastOp' = "initial_crawl_timeout" /\ workers'[w] = IdleWorker
       \/ lastOp' = "initial_crawl_timeout_swallowed"

\* C16: when the soft time limit of a full rescrape expires, nothing the task
\* had not committed is written, its job becomes failed, the project becomes
\* failed, and the task ends without a retry message.
C16_TimeLimitFails ==
    [][\A w \in Workers :
         ExceedsSoftLimit(w) =>
            /\ jobs'[workers[w].job].status = "failed"
            /\ project' = [project EXCEPT !.status = "failed"]
            /\ workers'[w] = IdleWorker
            /\ queue' = queue
            /\ <<curated, artifact, versions, pages, pageVersion>>'
                  = <<curated, artifact, versions, pages, pageVersion>>]_vars

\* ------------------------------------------------------------------ C17
\* the rescrape of the project has failed on the time limit, its next check is
\* due and the broker takes one more message
FailedOnTimeLimit ==
    /\ lastOp = "initial_crawl_timeout"
    /\ project.status = "failed"
    /\ IsDue(project.next_check_at)
    /\ enqueued < MaxTasks

\* C17: a project whose full rescrape failed on the time limit is eventually
\* dispatched by the periodic check_projects_for_changes, whatever users do.
C17_FailedProjectRechecked ==
    FailedOnTimeLimit ~> (lastOp = "check_projects_for_changes")

\* ------------------------------------------------------------------ C18
\* the initial crawl of the new project has just completed, at its first run:
\* the message of POST /projects is the only one that was ever sent
InitialCrawlCompleted ==
    /\ lastOp = "initial_crawl_finish"
    /\ jobs = <<[trigger_reason |-> "initial", status |-> "completed"]>>
    /\ enqueued = 1
    /\ queue = {}

\* C18: when the initial crawl of a new project has completed, the project is
\* ready, there is exactly one file version, version 1, and the current file,
\* the page rows are those of version 1, the next full check and the next
\* lightweight check lie strictly in the future, and the project is not in
\* the cooldown of the lightweight rescrape.
C18_AfterInitialCrawl ==
    InitialCrawlCompleted =>
        /\ project.status = "ready"
        /\ artifact.exists
        /\ {r.version : r \in versions} = {1}
        /\ Cardinality(versions) = 1
        /\ pageVersion = 1
        /\ \A p \in Pages : pages[p] = FreshPage
        /\ ~IsDue(project.next_check_at)
        /\ ~IsDue(project.next_lightweight_check_at)
        /\ project.last_lightweight_rescrape_at = None

\* ------------------------------------------------------------------ C19
\* C19: _normalize_url applied to its own result returns that result.
C19_NormalizeIdempotent ==
    nrm.pc = "twice" => nrm.twice = nrm.once

\* "A//": the first application lowers the letter and strips both slashes,
\* the second one has been applied and found nothing to do
C19_Witness ==
    /\ nrm.pc = "twice"
    /\ nrm.url = <<"A", "/", "/">>
    /\ nrm.once = <<"a">>
    /\ nrm.twice = <<"a">>

\* ------------------------------------------------------------------ C20
\* the step is a call of the handler or task op (every handler names itself
\* in lastOp, and only the clock leaves lastOp alone)
Calls(op) == lastOp' = op /\ now' = now

\* C20: a recrawl request for a project that is pending or crawling is
\* answered with a conflict, and check_single_project and
\* lightweight_batch_check for a project that is not ready are skipped; none
\* of them creates a crawl job, sends a task or changes the project.
C20_RefusedWithoutEffect ==
    [][/\ (Calls("recrawl_project") /\ project.status \in {"pending", "crawling"})
            => /\ lastRet'.result = "conflict"
               /\ <<project, jobs, queue, enqueued>>' = <<project, jobs, queue, enqueued>>
       /\ (Calls("check_single_project") /\ project.status # "ready")
            => /\ lastRet'.result = "skipped"
               /\ <<project, jobs, enqueued>>' = <<project, jobs, enqueued>>
               /\ queue' \subseteq queue
       /\ (Calls("lightweight_batch_check") /\ project.status # "ready")
            => /\ lastRet'.result = "skipped"
               /\ <<project, jobs, enqueued, pages>>' = <<project, jobs, enqueued, pages>>
               /\ queue' \subseteq queue]_vars

\* a recrawl was requested while worker 1 was crawling for job 1, the only
\* job there is, and the request was answered with the conflict
C20_Witness ==
    /\ lastOp = "recrawl_project"
    /\ lastRet.result = "conflict"
    /\ project.status = "crawling"
    /\ workers[1].pc = "crawl"
    /\ Len(jobs) = 1
    /\ jobs[1].status = "running"
    /\ queue = {}

\* ------------------------------------------------------------------ C21
\* C21: the job of every initial_crawl message is committed before a worker
\* can take the message: no task returns "Project or job not found", and the
\* project is never left pending with its only task gone.
C21_JobCommittedBeforeEnqueue ==
    /\ \A c \in Crawls : pv.crawl[c].pc # "not_found"
    /\ pv.status = "pending"
          => \E c \in Crawls : pv.crawl[c].pc \in {"queued", "running", "added", "committed"}

\* ------------------------------------------------------------------ C22
\* C22: a project that is pending or crawling becomes ready or failed.
C22_CrawlTerminates ==
    (project.status \in {"pending", "crawling"}) ~> (project.status \in {"ready", "failed"})

\* ------------------------------------------------------------------ C23
\* dispatcher d executes the removals of its get_due_* call
ExecutesRemovals(d) == disp[d].pc = "pipe" /\ disp'[d] = IdleDispatcher

\* C23: an entry that a schedule call wrote, with a due time in the future,
\* after a dispatcher had read the project as due is still in the timer, with
\* that due time, when the dispatcher's removals have executed.
C23_ScheduleNotUndone ==
    [][\A d \in Dispatchers :
         ExecutesRemovals(d) =>
            \A p \in disp[d].due :
               (/\ disp[d].key \in {FULL_CHECK_KEY, LIGHTWEIGHT_CHECK_KEY}
                /\ zgen[disp[d].key][p] > disp[d].gens[p]
                /\ zsets[disp[d].key][p] # None
                /\ zsets[disp[d].key][p] > now)
               => zsets'[disp[d].key][p] = zsets[disp[d].key][p]]_vars

\* ------------------------------------------------------------------ C24
\* C24: the removal that is_in_cooldown or get_cooldown_remaining sends for
\* an expired entry leaves alone a cooldown that set_cooldown wrote after the
\* entry was read and that has not expired.
C24_CooldownNotEvicted ==
    [][\A d \in Dispatchers :
         (disp[d].pc \in {"evict", "evict_remaining"} /\ disp'[d] = IdleDispatcher) =>
            \A p \in disp[d].due :
               (/\ zgen[COOLDOWN_KEY][p] > disp[d].gens[p]
                /\ zsets[COOLDOWN_KEY][p] # None
                /\ zsets[COOLDOWN_KEY][p] > now)
               => zsets'[COOLDOWN_KEY][p] = zsets[COOLDOWN_KEY][p]]_vars

\* ------------------------------------------------------------------ C25
\* C25: while a schedule_project call has applied one part of its update,
\* no other scheduler operation takes a step; and a completed
\* unschedule_project leaves the project in none of the four keys.
C25_BulkAtomic ==
    [][/\ \A d \in Dispatchers :
            (disp[d].pc = "enrol" /\ now' = now) => disp'[d] = IdleDispatcher
       /\ \A p \in Projects :
            (lastCall'.op = "unschedule_project" /\ lastCall'.p = p
             /\ disp' = disp /\ now' = now)
            => /\ \A k \in ZKeys : zsets'[k][p] = None
               /\ intervals'[p] = None]_vars

\* C26: get_due_full_checks(limit) and get_due_lightweight_checks(limit) read
\* at most limit ids, each with a due time <= now in the timer at the read;
\* when the call returns none of the ids it returns is in the timer, and every
\* other entry of either timer has the due time it had.
C26_GetDueReturnsDue ==
    [][\A d \in Dispatchers :
          /\ (disp[d].pc = "idle" /\ disp'[d].pc = "pipe")
                => /\ Cardinality(disp'[d].due) <= disp'[d].limit
                   /\ \A p \in disp'[d].due :
                         /\ zsets[disp'[d].key][p] # None
                         /\ zsets[disp'[d].key][p] <= now
          /\ ExecutesRemovals(d)
                => \A k \in ZKeys, p \in Projects :
                      IF k = disp[d].key /\ p \in disp[d].due
                      THEN zsets'[k][p] = None
                      ELSE zsets'[k][p] = zsets[k][p]]_vars

\* a call with limit 1 has returned project p while another entry of the same
\* timer, due as well, stays where it was
C26_Witness ==
    /\ \A d \in Dispatchers : disp[d].pc = "idle"
    /\ \E k \in {FULL_CHECK_KEY, LIGHTWEIGHT_CHECK_KEY}, p \in Projects, q \in Projects :
          /\ <<k, p, zgen[k][p]>> \in handed
          /\ zsets[k][p] = None
          /\ zsets[k][q] # None
          /\ zsets[k][q] <= now

C28_BulkWithoutGet ==
    [][(LightStep /\ lastRet'.reason = "bulk_change") => lastRet'.gets = {}]_vars

\* C28, amended: above the bulk threshold the run triggers the rescrape without
\* fetch_changed, the GET of the changed pages for the significance analysis;
\* the GETs of fetch_samples and check_sample_hashes come before the threshold
\* test.
C28_BulkWithoutFetchChanged ==
    [][(LightStep /\ lastRet'.reason = "bulk_change")
          => "fetch_changed" \notin lastRet'.gets]_vars

\* a bulk change has triggered the rescrape
C28_Witness ==
    /\ lastOp = "lightweight_batch_check"
    /\ lastRet.reason = "bulk_change"
    /\ lastRet.trigger = "triggered"


\* the page had a fingerprint of some kind before the run
HasAnyPrior(page) ==
    \/ page.etag # None
    \/ page.last_modified_header # None
    \/ page.content_length # None
    \/ page.sample_hash # None

C30_ChecksConverge ==
    [][(LightStep /\ lastRet'.result = "not_significant")
          => \A p \in Pages : ~check_one(pages'[p], lastRet'.seen[p]).changed]_vars

\* the HEAD answer of page p carries an ETag other than the stored one
EtagDiffers(p, resp) ==
    /\ resp[p].kind = "ok"
    /\ pages[p].etag # None
    /\ resp[p].etag # None
    /\ resp[p].etag # pages[p].etag

RetriesExhausted ==
    /\ lastOp = "initial_crawl_fail"
    /\ jobs[Len(jobs)].status = "failed"
    /\ \A msg \in queue : msg.task # "initial_crawl"
    /\ \A w \in Workers : workers[w] = IdleWorker

\* C32: when the recrawl of the probed project has failed on its last retry,
\* the project has the status it had before the task first started (pending,
\* set by the request) and every page has the fingerprint it had (the
\* stored ETag).
C32_ExhaustedLeavesProject ==
    RetriesExhausted
       => /\ project.status = "pending"
          /\ \A p \in Pages : pages[p] = [FreshPage EXCEPT !.etag = 1]

\* ------------------------------------------------------------------ C33
\* sections_unchanged = [name for name in existing_section_names
\*                       if name not in affected_sections]
sections_unchanged == {s.name : s \in sel.before.sections} \ sel.plan.affected_sections

\* C33: once the analysis has chosen the selective path, affected_sections is
\* exactly the set of sections that hold a curated page removed from the site
\* or a significantly changed page, or are the category of a new relevant
\* page, and sections_unchanged is the existing sections that are none of
\* these.
C33_AffectedExact ==
    sel.pc = "selective"
       => /\ sel.plan.affected_sections
                = {n \in ExistingSections \cup NewSections : AffectedSection(n)}
          /\ sections_unchanged
                = {n \in {s.name : s \in sel.before.sections} : ~AffectedSection(n)}

\* ------------------------------------------------------------------ C34
\* the curated page rows agree with the change sets of the plan
NoRemovedRow == \A r \in sel.rows : normalize_url(r.url) \notin sel.plan.removed_from_site

ChangedRowsFresh ==
    \A r \in sel.rows : normalize_url(r.url) \in sel.plan.pages_with_changes => r.content_hash = "h2"

NewPagesHaveRow ==
    \A p \in sel.plan.new_relevant_pages : \E r \in sel.rows : r.url = p.url /\ r.category = p.category

OneRowPerUrl == \A r1, r2 \in sel.rows : r1.url = r2.url => r1 = r2

\* C34: after the selective save no removed URL has a curated page row, the
\* row of every significantly changed URL carries the fresh content_hash,
\* every new relevant URL has a row in its assigned section, existing or
\* new, and there is at most one row per URL.
C34_RowsReflectChanges ==
    sel.pc = "saved" => NoRemovedRow /\ ChangedRowsFresh /\ NewPagesHaveRow /\ OneRowPerUrl

\* ------------------------------------------------------------------ C35
StoredKeys(rows) == {normalize_url(r.url) : r \in rows}

\* C35: the inventory holds exactly the keys ever passed, one row per key;
\* the last call returned new_urls = incoming minus stored before,
\* existing_urls = incoming and stored before, removed_urls = stored before
\* minus incoming; every row stored before is still there with its
\* first_seen_at, and its last_seen_at moved exactly if its key was incoming.
C35_InventoryGrows ==
    /\ StoredKeys(inv.rows) = inv.passed
    /\ \A r1, r2 \in inv.rows : normalize_url(r1.url) = normalize_url(r2.url) => r1 = r2
    /\ inv.calls > 0 =>
          /\ {normalize_url(u) : u \in inv.ret.new_urls} = inv.incoming \ StoredKeys(inv.before)
          /\ {normalize_url(u) : u \in inv.ret.existing_urls} = inv.incoming \cap StoredKeys(inv.before)
          /\ inv.ret.removed_urls = StoredKeys(inv.before) \ inv.incoming
          /\ \A r \in inv.before :
                IF normalize_url(r.url) \in inv.incoming
                THEN [r EXCEPT !.last_seen_at = inv.calls] \in inv.rows
                ELSE r \in inv.rows

\* the second call passes a new page and leaves out a stored one
C35_Witness ==
    /\ inv.calls = 2
    /\ inv.ret.new_urls = {<<"A">>}
    /\ inv.ret.removed_urls = {<<"b">>}
    /\ inv.ret.existing_urls = {<<"/">>}
    /\ inv.rows = {[url |-> <<"b">>, first_seen_at |-> 1, last_seen_at |-> 1],
                   [url |-> <<"a">>, first_seen_at |-> 2, last_seen_at |-> 2],
                   [url |-> <<>>, first_seen_at |-> 1, last_seen_at |-> 2]}

\* ------------------------------------------------------------------ C36
\* C36: for a non-empty list of changed pages the result is significant with
\* score 100 and reason bulk_change if changed / total_pages is above the
\* bulk threshold in percent; otherwise it is significant, with reason
\* cumulative_drift, exactly if the mean of the page scores is at least the
\* significance threshold.
C36_BatchSignificance ==
    (sig.pc = "done" /\ sig.scores # <<>>) =>
       LET changed == Len(sig.scores)
           bulk == 100 * changed > lightweight_change_threshold_percent * sig.total_pages
           drift == SumScores(sig.scores) >= lightweight_significance_threshold * changed
       IN  /\ bulk => /\ sig.result.significant
                      /\ sig.result.score = Fraction(100, 1)
                      /\ sig.result.reason = "bulk_change"
           /\ (~bulk /\ drift) => sig.result.significant /\ sig.result.reason = "cumulative_drift"
           /\ (~bulk /\ ~drift) => ~sig.result.significant

\* two of ten pages changed, exactly 20 %, with a mean score of exactly 30
C36_Witness ==
    /\ sig.pc = "done"
    /\ sig.scores = <<29, 31>>
    /\ sig.total_pages = 10
    /\ sig.result = [significant |-> TRUE, score |-> Fraction(60, 2), reason |-> "cumulative_drift"]

\* ------------------------------------------------------------------ C37
\* C37: the last run of a dispatch loop sent exactly one task for every
\* project that was ready and due when it ran and set the due time of that
\* project to the time of the run plus its interval; it sent nothing for any
\* other project and left its row as it was; and a project it dispatched
\* had not been dispatched by the same loop less than its interval before.
C37_DispatchOncePerInterval ==
    loop.run.op # "none" =>
       LET task == loop.run.op
           at == loop.run.at
           before == loop.run.before
       IN  \A p \in LoopProjects :
              LET was_due == /\ before[p].status = "ready"
                             /\ (DueOf(before[p], task) = None \/ DueOf(before[p], task) <= at)
              IN  /\ \A other \in CheckTasks \ {task} :
                        /\ loop.sent[<<other, p>>] = loop.run.sent_before[<<other, p>>]
                        /\ DueOf(loop.rows[p], other) = DueOf(before[p], other)
                  /\ loop.rows[p].status = before[p].status
                  /\ loop.rows[p].check_interval_hours = before[p].check_interval_hours
                  /\ IF was_due
                     THEN /\ loop.sent[<<task, p>>] = loop.run.sent_before[<<task, p>>] + 1
                          /\ DueOf(loop.rows[p], task) = at + IntervalOf(before[p], task)
                          /\ loop.run.last_before[<<task, p>>] # None
                                => at >= loop.run.last_before[<<task, p>>] + IntervalOf(before[p], task)
                     ELSE /\ loop.sent[<<task, p>>] = loop.run.sent_before[<<task, p>>]
                          /\ loop.rows[p] = before[p]

\* the hourly loop ran at 0, again a minute later and again after a day:
\* project 1 (ready, never checked, daily) got a task in the first and the
\* third run, project 2 (crawling) got none
C37_Witness ==
    /\ loop.runs = 3
    /\ now = 24 * MinutesPerHour + 1
    /\ loop.run.op = "check_single_project"
    /\ loop.run.last_before[<<"check_single_project", 1>>] = 0
    /\ loop.sent[<<"check_single_project", 1>>] = 2
    /\ loop.sent[<<"check_single_project", 2>>] = 0
    /\ loop.rows[2].status = "crawling"
    /\ loop.rows[2].next_check_at = None
    /\ loop.rows[1].next_check_at = 2 * 24 * MinutesPerHour + 1

\* ------------------------------------------------------------------ C38
\* C38: a project with a file version has a current file whose content
\* (the revision of the curated data it was assembled from) is that of its
\* highest version; a project with no version has no current file.
C38_CurrentIsHighestVersion ==
    IF versions = {}
    THEN ~artifact.exists
    ELSE /\ artifact.exists
         /\ \A r \in versions : r.version = MaxFileVersion => r.rev = artifact.rev

\* a second writer was refused by the unique index after two versions with
\* different content had been written
C38_Witness ==
    /\ Cardinality(versions) >= 2
    /\ \E r \in versions : r.rev # artifact.rev
    /\ lastOp \in {"initial_crawl_finish", "targeted_recrawl_finish"}
    /\ \E r \in versions : r.version = MaxFileVersion /\ r.generated_at < now

\* ------------------------------------------------------------------ C39
PreferredRank(name) == CHOOSE i \in 1..Len(SECTION_ORDER) : SECTION_ORDER[i] = name

====
